---------------------------- MODULE Spec2Model ----------------------------
(***************************************************************************)
(* A model of the ToyC compiler: the two semantic analyzers                *)
(* (analyzeVisitor, TOYC2 SemanticAnalyzer), the AST optimizer, the AST    *)
(* code generator's short-circuit lowering and the IR code generator's     *)
(* frame discipline.  Each component has its own specification.            *)
(***************************************************************************)
EXTENDS Integers, Sequences, FiniteSets, TLC

VARIABLES
    semImpl,      \* which analyzer runs: "analyzeVisitor" or "TOYC2"
    semUnit,      \* the CompUnit under analysis: a sequence of functions
    semIdx,       \* how many functions of semUnit have been visited
    loopDepth,    \* analyzeHelper::loopDepth
    inLoopStack,  \* SemanticAnalyzer::in_loop_stack (TOYC2)
    semErrors,    \* the errors reported so far
    semSuccess    \* the analyzer's success flag

semVars == <<semImpl, semUnit, semIdx, loopDepth, inLoopStack, semErrors, semSuccess>>

VARIABLES
    optVariant,            \* which Optimizer: "propagating" (src/src/main.cpp) or "folding" (part_005)
    optExpr,               \* the expression handed to simplify_expression
    optEnv,                \* a run-time assignment of 32-bit integers to the variables
    constant_values,       \* Optimizer::constant_values
    is_variable_constant,  \* Optimizer::is_variable_constant (the names recorded)
    optResult              \* what simplify_expression returned

optVars == <<optVariant, optExpr, optEnv, constant_values, is_variable_constant, optResult>>

VARIABLES
    progSrc,              \* the body of the function as parsed
    progArg,              \* the value of its parameter p when it is run
    enable_optimization,  \* the driver's -opt flag
    progStage,            \* "parsed", "analyzed", "optimized", "compiled", "rejected", "crashed"
    progAst,              \* the body as the passes have left it
    progErrors            \* the semantic errors reported

progVars == <<progSrc, progArg, enable_optimization, progStage, progAst, progErrors>>

VARIABLES
    generator,         \* "ast" (src/src/code_generator.cpp) or "ir" (part_011 CodeGenerator)
    asmExpr,           \* the expression E of `int main(){ return E; }`
    instructions,      \* ir: CodeGenerator::instructions, the IR of that function
    regAllocStrategy,  \* ir: config.regAllocStrategy
    cg,                \* the code generator's fields, the emitted lines among them
    cpu,               \* the hart running the emitted code: pc, registers, stack memory
    asmStage           \* "parsed", "generating", "running", "returned", "fault"

asmVars == <<generator, asmExpr, instructions, regAllocStrategy, cg, cpu, asmStage>>

VARIABLES
    peepInput,   \* the assembly lines handed to CodeGenerator::peepholeOptimize
    peepOutput,  \* the lines after the passes run so far
    peepPasses   \* how many times the pass has run

peepVars == <<peepInput, peepOutput, peepPasses>>

VARIABLES
    parser,  \* which parser: "Parser" (parser.cpp), "parse_rel_expr" (part_004), "grammar" (part_010)
    tokens,  \* the tokens of the expression to parse
    parsed   \* the expression the parser built

parseVars == <<parser, tokens, parsed>>

VARIABLES
    allocator,      \* "LINEAR_SCAN" or "GRAPH_COLOR"
    allocInstrs,    \* the instructions handed to RegisterAllocator::allocate
    availableRegs,  \* the registers handed to it
    allocResult,    \* its map allocation: the one it returns when it is done
    allocStage,     \* "none", "start", "scanning", "done"
    lsOrder,        \* linear scan: the variables by interval start, not yet handled
    lsFreeRegs,     \* linear scan: the free list
    lsActive        \* linear scan: the active intervals, variable -> register

allocVars == <<allocator, allocInstrs, availableRegs, allocResult, allocStage,
               lsOrder, lsFreeRegs, lsActive>>

VARIABLES
    analyzer,       \* "analyzeVisitor" (part_001) or "TOYC2" (TOYC2/src/semantic.cpp)
    compUnit,       \* the functions of the unit under analysis
    avStage,        \* "none", "start", "functions", "visited", "done"
    avVisited,      \* how many function bodies have been analysed
    functionTable,  \* function name -> number of parameters
    avErrors        \* the errors reported so far

avVars == <<analyzer, compUnit, avStage, avVisited, functionTable, avErrors>>

VARIABLES
    unitSrc,    \* the functions of the unit handed to Optimizer::optimize
    unitAst,    \* the functions as the optimizer has left them so far
    unitIdx,    \* how many functions the optimizer has visited
    unitStage,  \* "none", "start", "functions", "done"
    unitArg     \* the argument the functions are called with

unitVars == <<unitSrc, unitAst, unitIdx, unitStage, unitArg>>

\* the symbol table shared by the semantic analyzer and the AST code
\* generator, the function they walk, and what the two walks report and emit
VARIABLES symbol_table, walkFunc, walkStage, walkErrors, walkOut

symVars == <<symbol_table, walkFunc, walkStage, walkErrors, walkOut>>

vars == <<semVars, optVars, progVars, asmVars, peepVars, parseVars, allocVars, avVars, unitVars, symVars>>

\* The parts of the compiler a specification does not exercise stay idle.
SemIdle ==
    /\ semImpl = "none"
    /\ semUnit = <<>>
    /\ semIdx = 0
    /\ loopDepth = 0
    /\ inLoopStack = <<>>
    /\ semErrors = {}
    /\ semSuccess = TRUE

OptIdle ==
    /\ optVariant = "none"
    /\ optExpr = [k |-> "None"]
    /\ optEnv = <<>>
    /\ constant_values = <<>>
    /\ is_variable_constant = {}
    /\ optResult = [k |-> "None"]

ProgIdle ==
    /\ progSrc = [k |-> "None"]
    /\ progArg = 0
    /\ enable_optimization = FALSE
    /\ progStage = "none"
    /\ progAst = [k |-> "None"]
    /\ progErrors = {}

AsmIdle ==
    /\ generator = "none"
    /\ asmExpr = [k |-> "None"]
    /\ instructions = <<>>
    /\ regAllocStrategy = "none"
    /\ cg = [out |-> <<>>]
    /\ cpu = [pc |-> 0]
    /\ asmStage = "none"

PeepIdle ==
    /\ peepInput = <<>>
    /\ peepOutput = <<>>
    /\ peepPasses = 0

ParseIdle ==
    /\ parser = "none"
    /\ tokens = <<>>
    /\ parsed = [k |-> "None"]

AllocIdle ==
    /\ allocator = "none"
    /\ allocInstrs = <<>>
    /\ availableRegs = <<>>
    /\ allocResult = <<>>
    /\ allocStage = "none"
    /\ lsOrder = <<>>
    /\ lsFreeRegs = <<>>
    /\ lsActive = <<>>

AvIdle ==
    /\ analyzer = "none"
    /\ compUnit = <<>>
    /\ avStage = "none"
    /\ avVisited = 0
    /\ functionTable = <<>>
    /\ avErrors = {}

UnitIdle ==
    /\ unitSrc = <<>>
    /\ unitAst = <<>>
    /\ unitIdx = 0
    /\ unitStage = "none"
    /\ unitArg = 0

SymIdle ==
    /\ symbol_table = <<>>
    /\ walkFunc = <<>>
    /\ walkStage = "idle"
    /\ walkErrors = <<>>
    /\ walkOut = <<>>

(***************************************************************************)
(* Statements (the part of the AST the control-flow checks read).          *)
(***************************************************************************)
NoStmt == [k |-> "None"]
RetS == [k |-> "Return"]
BrkS == [k |-> "Break"]
ContS == [k |-> "Continue"]
ExS == [k |-> "Expr"]
WhileS(b) == [k |-> "While", b |-> b]
IfS(t, e) == [k |-> "If", t |-> t, e |-> e]
BlockS(ss) == [k |-> "Block", ss |-> ss]

\* Bounds of the semantic-analysis specification.
MaxBodyLen == 2

Atoms == {RetS, BrkS, ContS, ExS}

Loops1 == {WhileS(a) : a \in Atoms}
             \cup {WhileS(BlockS(<<a, b>>)) : a \in {BrkS, ExS}, b \in {RetS, ContS}}

Ifs1 == {IfS(a, NoStmt) : a \in {RetS, BrkS}}
           \cup {IfS(a, b) : a \in {RetS, BrkS}, b \in {RetS, ContS, ExS}}

Nested == {WhileS(s) : s \in {WhileS(BrkS), IfS(BrkS, NoStmt), IfS(RetS, ContS)}}
             \cup {BlockS(<<WhileS(w), a>>) : w \in {BrkS, WhileS(ExS)}, a \in {BrkS, ContS}}
             \cup {IfS(WhileS(RetS), NoStmt), IfS(BlockS(<<RetS>>), WhileS(RetS)),
                   IfS(BlockS(<<ExS, RetS>>), IfS(RetS, RetS)),
                   BlockS(<<RetS, ExS>>)}

Shapes == Atoms \cup Loops1 \cup Ifs1 \cup Nested

SeqsUpTo(S, n) == UNION {[1..m -> S] : m \in 0..n}

Bodies == {BlockS(ss) : ss \in SeqsUpTo(Shapes, MaxBodyLen) \ {<<>>}}

\* The second function of a unit: what a later function may hold.
LaterBodies == {BlockS(<<RetS>>), BlockS(<<BrkS, RetS>>), BlockS(<<WhileS(ContS)>>)}

FuncDef(rt, body) == [returnType |-> rt, body |-> body]

Units == {<<FuncDef(rt, b), FuncDef("int", lb)>> :
              rt \in {"int", "void"}, b \in Bodies, lb \in LaterBodies}


(***************************************************************************)
(* analyzeVisitor (semantic analyzer of the IR pipeline).                  *)
(***************************************************************************)
SemError(kind, path) == [kind |-> kind, path |-> path]

AvEnterLoop(ld) == ld + 1

AvExitLoop_NoDecrement(ld) == ld

AvExitLoop(ld) == ld - 1

AvIsInLoop(ld) == ld > 0

\* st = [ld: loopDepth, hr: hasReturn, errs: reported errors]; p is the
\* position of statement s (function index, then child indices).
RECURSIVE AvVisit(_, _, _)
RECURSIVE AvVisitSeq(_, _, _, _)
AvVisitSeq(ss, i, p, st) ==
    IF i > Len(ss) THEN st
    ELSE AvVisitSeq(ss, i + 1, p, AvVisit(ss[i], Append(p, i), st))

AvVisit(s, p, st) ==
    CASE s.k = "Return" -> [st EXCEPT !.hr = TRUE]
      [] s.k = "Break" ->
            IF ~AvIsInLoop(st.ld)
            THEN [st EXCEPT !.errs = @ \cup {SemError("break", p)}]
            ELSE st
      [] s.k = "Continue" ->
            IF ~AvIsInLoop(st.ld)
            THEN [st EXCEPT !.errs = @ \cup {SemError("continue", p)}]
            ELSE st
      [] s.k = "While" ->
            LET entered == [st EXCEPT !.ld = AvEnterLoop(@)]
                after == AvVisit(s.b, Append(p, 1), entered)
            IN  [after EXCEPT !.ld = AvExitLoop(@)]
      [] s.k = "If" ->
            LET afterThen == AvVisit(s.t, Append(p, 1), st)
            IN  IF s.e # NoStmt THEN AvVisit(s.e, Append(p, 2), afterThen)
                ELSE afterThen
      [] s.k = "Block" -> AvVisitSeq(s.ss, 1, p, st)
      [] OTHER -> st

\* analyzeVisitor::visit(FunctionDef): the result of visiting function f,
\* the n-th of the unit, with the helper's loop depth ld.
AvFunctionResult(f, n, ld) ==
    LET after == AvVisit(f.body, <<n>>, [ld |-> ld, hr |-> FALSE, errs |-> {}])
    IN  IF f.returnType # "void" /\ ~after.hr
        THEN [after EXCEPT !.errs = @ \cup {SemError("noreturn", <<n>>)}]
        ELSE after

AvFunctionDef ==
    /\ semImpl = "analyzeVisitor"
    /\ semIdx < Len(semUnit)
    /\ LET n == semIdx + 1
           r == AvFunctionResult(semUnit[n], n, loopDepth)
       IN  /\ loopDepth' = r.ld
           /\ semErrors' = semErrors \cup r.errs
           /\ semSuccess' = (semSuccess /\ r.errs = {})
           /\ semIdx' = n
    /\ UNCHANGED <<semImpl, semUnit, inLoopStack>>
    /\ UNCHANGED <<optVars, progVars, asmVars, peepVars, parseVars, allocVars, avVars, unitVars, symVars>>

(***************************************************************************)
(* TOYC2 SemanticAnalyzer.                                                 *)
(***************************************************************************)
enter_loop(stk) == Append(stk, TRUE)

exit_loop(stk) == IF stk # <<>> THEN SubSeq(stk, 1, Len(stk) - 1) ELSE stk

is_in_loop(stk) == stk # <<>> /\ stk[Len(stk)]

RECURSIVE has_return_statement(_)
RECURSIVE AnyHasReturn(_, _)
AnyHasReturn(ss, i) ==
    IF i > Len(ss) THEN FALSE
    ELSE has_return_statement(ss[i]) \/ AnyHasReturn(ss, i + 1)

has_return_statement(s) ==
    CASE s.k = "Return" -> TRUE
      [] s.k = "Block" -> AnyHasReturn(s.ss, 1)
      [] s.k = "If" ->
            IF s.e # NoStmt
            THEN has_return_statement(s.t) /\ has_return_statement(s.e)
            ELSE FALSE
      [] OTHER -> FALSE

\* st = [stk: in_loop_stack, hr: current_function_has_return, errs]
RECURSIVE T2Visit(_, _, _)
RECURSIVE T2VisitSeq(_, _, _, _)
T2VisitSeq(ss, i, p, st) ==
    IF i > Len(ss) THEN st
    ELSE T2VisitSeq(ss, i + 1, p, T2Visit(ss[i], Append(p, i), st))

T2Visit(s, p, st) ==
    CASE s.k = "Return" -> [st EXCEPT !.hr = TRUE]
      [] s.k = "Break" ->
            IF ~is_in_loop(st.stk)
            THEN [st EXCEPT !.errs = @ \cup {SemError("break", p)}]
            ELSE st
      [] s.k = "Continue" ->
            IF ~is_in_loop(st.stk)
            THEN [st EXCEPT !.errs = @ \cup {SemError("continue", p)}]
            ELSE st
      [] s.k = "While" ->
            LET entered == [st EXCEPT !.stk = enter_loop(@)]
                after == T2Visit(s.b, Append(p, 1), entered)
            IN  [after EXCEPT !.stk = exit_loop(@)]
      [] s.k = "If" ->
            LET afterThen == T2Visit(s.t, Append(p, 1), st)
            IN  IF s.e # NoStmt THEN T2Visit(s.e, Append(p, 2), afterThen)
                ELSE afterThen
      [] s.k = "Block" -> T2VisitSeq(s.ss, 1, p, st)
      [] OTHER -> st

\* SemanticAnalyzer::visit(FuncDef)
T2FunctionResult(f, n, stk) ==
    LET after == T2Visit(f.body, <<n>>, [stk |-> stk, hr |-> FALSE, errs |-> {}])
    IN  IF f.returnType = "int" /\ ~after.hr /\ ~has_return_statement(f.body)
        THEN [after EXCEPT !.errs = @ \cup {SemError("noreturn", <<n>>)}]
        ELSE after

T2FuncDef ==
    /\ semImpl = "TOYC2"
    /\ semIdx < Len(semUnit)
    /\ LET n == semIdx + 1
           r == T2FunctionResult(semUnit[n], n, inLoopStack)
       IN  /\ inLoopStack' = r.stk
           /\ semErrors' = semErrors \cup r.errs
           /\ semSuccess' = (semErrors' = {})
           /\ semIdx' = n
    /\ UNCHANGED <<semImpl, semUnit, loopDepth>>
    /\ UNCHANGED <<optVars, progVars, asmVars, peepVars, parseVars, allocVars, avVars, unitVars, symVars>>

SemInit ==
    /\ SymIdle
    /\ UnitIdle
    /\ AvIdle
    /\ PeepIdle
    /\ ParseIdle
    /\ AllocIdle
    /\ semImpl \in {"analyzeVisitor", "TOYC2"}
    /\ semUnit \in Units
    /\ semIdx = 0
    /\ loopDepth = 0
    /\ inLoopStack = <<>>
    /\ semErrors = {}
    /\ semSuccess = TRUE
    \* the optimizer is not running
    /\ optVariant = "none"
    /\ optExpr = [k |-> "None"]
    /\ optEnv = <<>>
    /\ constant_values = <<>>
    /\ is_variable_constant = {}
    /\ optResult = [k |-> "None"]
    \* no program is being compiled
    /\ progSrc = [k |-> "None"]
    /\ progArg = 0
    /\ enable_optimization = FALSE
    /\ progStage = "none"
    /\ progAst = [k |-> "None"]
    /\ progErrors = {}
    /\ generator = "none"
    /\ asmExpr = [k |-> "None"]
    /\ instructions = <<>>
    /\ regAllocStrategy = "none"
    /\ cg = [out |-> <<>>]
    /\ cpu = [pc |-> 0]
    /\ asmStage = "none"

SemNext == AvFunctionDef \/ T2FuncDef

SpecSem == SemInit /\ [][SemNext]_vars

(***************************************************************************)
(* What the specification says of the two checks.                          *)
(***************************************************************************)
\* A statement "returns": a Return, a Block whose last statement returns,
\* an If with an else whose both arms return; a While never returns.
RECURSIVE StructReturns(_)
StructReturns(s) ==
    CASE s.k = "Return" -> TRUE
      [] s.k = "Block" -> s.ss # <<>> /\ StructReturns(s.ss[Len(s.ss)])
      [] s.k = "If" -> s.e # NoStmt /\ StructReturns(s.t) /\ StructReturns(s.e)
      [] OTHER -> FALSE

\* The positions of the break and continue statements of s that are not
\* nested in the body of a while loop (inWhile: s itself is in one).
RECURSIVE OutsideLoop(_, _, _)
OutsideLoop(s, p, inWhile) ==
    CASE s.k = "Break" -> IF inWhile THEN {} ELSE {SemError("break", p)}
      [] s.k = "Continue" -> IF inWhile THEN {} ELSE {SemError("continue", p)}
      [] s.k = "While" -> {}
      [] s.k = "If" ->
            OutsideLoop(s.t, Append(p, 1), inWhile)
               \cup (IF s.e # NoStmt THEN OutsideLoop(s.e, Append(p, 2), inWhile) ELSE {})
      [] s.k = "Block" ->
            UNION {OutsideLoop(s.ss[i], Append(p, i), inWhile) : i \in 1..Len(s.ss)}
      [] OTHER -> {}

ErrorsOf(n, kinds) == {e \in semErrors : e.path[1] = n /\ e.kind \in kinds}

\* C1 (as claimed): every visited int function passes the return-path check
\* exactly when its body structurally returns.
C1_ReturnPathIffStructural ==
    \A n \in 1..semIdx :
        semUnit[n].returnType = "int" =>
            ((ErrorsOf(n, {"noreturn"}) = {}) <=> StructReturns(semUnit[n].body))

\* C2: a break or continue is reported exactly when it is not nested in a
\* while body of its function, analysis then fails, and after every visited
\* function the loop-depth counter is back at its initial value.
C2_BreakContinueOutsideLoop ==
    /\ \A n \in 1..semIdx :
          ErrorsOf(n, {"break", "continue"}) = OutsideLoop(semUnit[n].body, <<n>>, FALSE)
    /\ (\E e \in semErrors : e.kind \in {"break", "continue"}) => ~semSuccess
    /\ loopDepth = 0
    /\ inLoopStack = <<>>

\* A break after a completed loop in the first function and a break in the
\* later function, both reported.
C2_Witness ==
    /\ semIdx = 2
    /\ semUnit[1].body = BlockS(<<WhileS(WhileS(BrkS)), BrkS>>)
    /\ SemError("break", <<1, 2>>) \in semErrors
    /\ SemError("break", <<2, 1>>) \in semErrors

(***************************************************************************)
(* 32-bit two's-complement arithmetic (C++ int on the host, a register of  *)
(* the RV32 target).  Every intermediate value stays inside 32 bits.       *)
(***************************************************************************)
IntMax == 2147483647

IntMin == -IntMax - 1

AddOverflows(a, b) ==
    \/ a >= 0 /\ b >= 0 /\ a > IntMax - b
    \/ a < 0 /\ b < 0 /\ a < IntMin - b

Add32(a, b) ==
    IF a >= 0 /\ b >= 0 /\ a > IntMax - b THEN (a + IntMin) + (b + IntMin)
    ELSE IF a < 0 /\ b < 0 /\ a < IntMin - b THEN (a - IntMin) + (b - IntMin)
    ELSE a + b

Neg32(a) == IF a = IntMin THEN IntMin ELSE 0 - a

SubOverflows(a, b) == IF b = IntMin THEN a >= 0 ELSE AddOverflows(a, 0 - b)

Sub32(a, b) ==
    IF b = IntMin THEN (IF a < 0 THEN a - IntMin ELSE a + IntMin)
    ELSE Add32(a, 0 - b)

RECURSIVE MulNat32(_, _)
MulNat32(a, b) ==
    IF b = 0 THEN 0
    ELSE LET h == MulNat32(Add32(a, a), b \div 2)
         IN  IF b % 2 = 1 THEN Add32(a, h) ELSE h

Mul32(a, b) ==
    IF b >= 0 THEN MulNat32(a, b)
    ELSE IF b = IntMin THEN (IF a % 2 = 0 THEN 0 ELSE IntMin)
    ELSE Neg32(MulNat32(a, 0 - b))

Abs31(a) == IF a < 0 THEN 0 - a ELSE a

MulOverflows(a, b) ==
    IF a = 0 \/ b = 0 THEN FALSE
    ELSE IF a = IntMin \/ b = IntMin THEN ~(a = 1 \/ b = 1)
    ELSE LET x == Abs31(a)
             y == Abs31(b)
         IN  /\ x > IntMax \div y
             /\ ~(/\ (a < 0) # (b < 0)
                  /\ x = (IntMax \div y) + 1
                  /\ IntMax % y = y - 1)

\* a / d truncated toward zero, for d > 0
TruncDivPos(a, d) ==
    IF a >= 0 THEN a \div d
    ELSE (a \div d) + (IF a % d = 0 THEN 0 ELSE 1)

\* a / b and a % b as C++ and the RV32 div/rem compute them for b # 0;
\* IntMin / -1 is IntMin on RV32 and undefined on the host.
Div32(a, b) ==
    IF b > 0 THEN TruncDivPos(a, b)
    ELSE IF b = IntMin THEN (IF a = IntMin THEN 1 ELSE 0)
    ELSE Neg32(TruncDivPos(a, 0 - b))

Mod32(a, b) == Sub32(a, Mul32(Div32(a, b), b))

DivOverflows(a, b) == a = IntMin /\ b = 0 - 1

(***************************************************************************)
(* Expressions of the AST (src/src/ast.h).                                 *)
(***************************************************************************)
NoExpr == [k |-> "None"]

Num(v) == [k |-> "Num", v |-> v]

Var(n) == [k |-> "Var", n |-> n]

Bin(op, l, r) == [k |-> "Bin", op |-> op, l |-> l, r |-> r]

Un(op, e) == [k |-> "Un", op |-> op, e |-> e]

Call(f) == [k |-> "Call", f |-> f]

BinOps == {"ADD", "SUB", "MUL", "DIV", "MOD", "LT", "GT", "LE", "GE", "EQ", "NE", "AND", "OR"}

UnOps == {"PLUS", "MINUS", "NOT"}

B01(b) == IF b THEN 1 ELSE 0

\* The value of "l op r" in the host's int arithmetic where it is defined,
\* and the wrapped value where the host's behaviour is undefined.
HostBinary(op, l, r) ==
    CASE op = "ADD" -> Add32(l, r)
      [] op = "SUB" -> Sub32(l, r)
      [] op = "MUL" -> Mul32(l, r)
      [] op = "DIV" -> IF r # 0 THEN Div32(l, r) ELSE 0
      [] op = "MOD" -> IF r # 0 THEN Mod32(l, r) ELSE 0
      [] op = "LT" -> B01(l < r)
      [] op = "GT" -> B01(l > r)
      [] op = "LE" -> B01(l <= r)
      [] op = "GE" -> B01(l >= r)
      [] op = "EQ" -> B01(l = r)
      [] op = "NE" -> B01(l # r)
      [] op = "AND" -> B01(l # 0 /\ r # 0)
      [] op = "OR" -> B01(l # 0 \/ r # 0)

HostUnary(op, v) ==
    CASE op = "PLUS" -> v
      [] op = "MINUS" -> Neg32(v)
      [] op = "NOT" -> B01(v = 0)

\* The host's signed arithmetic has undefined behaviour on these operands.
HostBinaryUndefined(op, l, r) ==
    CASE op = "ADD" -> AddOverflows(l, r)
      [] op = "SUB" -> SubOverflows(l, r)
      [] op = "MUL" -> MulOverflows(l, r)
      [] op \in {"DIV", "MOD"} -> DivOverflows(l, r)
      [] OTHER -> FALSE

HostUnaryUndefined(op, v) == op = "MINUS" /\ v = IntMin

(***************************************************************************)
(* Optimizer (src/src/main.cpp): the expression functions.  tab is the     *)
(* pair of tables [constant_values, is_variable_constant].                 *)
(***************************************************************************)
Tables(cv, ivc) == [constant_values |-> cv, is_variable_constant |-> ivc]

NoTables == Tables(<<>>, {})

RECURSIVE is_constant_expr(_, _)
is_constant_expr(e, tab) ==
    CASE e.k = "Num" -> TRUE
      [] e.k = "Var" -> e.n \in tab.is_variable_constant
      [] e.k = "Bin" -> is_constant_expr(e.l, tab) /\ is_constant_expr(e.r, tab)
      [] e.k = "Un" -> is_constant_expr(e.e, tab)
      [] OTHER -> FALSE

RECURSIVE evaluate_constant_expr(_, _)
evaluate_constant_expr(e, tab) ==
    CASE e.k = "Num" -> e.v
      [] e.k = "Var" ->
            IF e.n \in DOMAIN tab.constant_values THEN tab.constant_values[e.n] ELSE 0
      [] e.k = "Bin" ->
            HostBinary(e.op, evaluate_constant_expr(e.l, tab), evaluate_constant_expr(e.r, tab))
      [] e.k = "Un" -> HostUnary(e.op, evaluate_constant_expr(e.e, tab))
      [] OTHER -> 0

\* evaluate_constant_expr(e) executes an operation the host leaves undefined.
RECURSIVE evaluate_undefined(_, _)
evaluate_undefined(e, tab) ==
    CASE e.k = "Bin" ->
            \/ evaluate_undefined(e.l, tab)
            \/ evaluate_undefined(e.r, tab)
            \/ HostBinaryUndefined(e.op, evaluate_constant_expr(e.l, tab),
                                   evaluate_constant_expr(e.r, tab))
      [] e.k = "Un" ->
            \/ evaluate_undefined(e.e, tab)
            \/ HostUnaryUndefined(e.op, evaluate_constant_expr(e.e, tab))
      [] OTHER -> FALSE

\* "is_constant_expr(x) || (x is a VarExpr recorded in is_variable_constant)"
FoldableOperand(x, tab) ==
    is_constant_expr(x, tab) \/ (x.k = "Var" /\ x.n \in tab.is_variable_constant)

\* constant_folding(BinaryExpr&) and constant_folding(UnaryExpr&): the
\* folded NumberExpr, or NoExpr for nullptr.
constant_folding(e, tab) ==
    IF e.k = "Bin" THEN
        IF ~FoldableOperand(e.l, tab) \/ ~FoldableOperand(e.r, tab) THEN NoExpr
        ELSE LET left_val == evaluate_constant_expr(e.l, tab)
                 right_val == evaluate_constant_expr(e.r, tab)
             IN  IF e.op \in {"DIV", "MOD"} /\ right_val = 0 THEN NoExpr
                 ELSE Num(HostBinary(e.op, left_val, right_val))
    ELSE IF e.k = "Un" THEN
        IF ~FoldableOperand(e.e, tab) THEN NoExpr
        ELSE Num(HostUnary(e.op, evaluate_constant_expr(e.e, tab)))
    ELSE NoExpr

folding_undefined(e, tab) ==
    IF e.k = "Bin" THEN
        /\ FoldableOperand(e.l, tab) /\ FoldableOperand(e.r, tab)
        /\ \/ evaluate_undefined(e.l, tab)
           \/ evaluate_undefined(e.r, tab)
           \/ HostBinaryUndefined(e.op, evaluate_constant_expr(e.l, tab),
                                  evaluate_constant_expr(e.r, tab))
    ELSE IF e.k = "Un" THEN
        /\ FoldableOperand(e.e, tab)
        /\ \/ evaluate_undefined(e.e, tab)
           \/ HostUnaryUndefined(e.op, evaluate_constant_expr(e.e, tab))
    ELSE FALSE

OrElse(a, b) == IF a # NoExpr THEN a ELSE b

\* try_constant_propagation: the rebuilt expression, or NoExpr for nullptr.
RECURSIVE try_constant_propagation(_, _)
try_constant_propagation(e, tab) ==
    CASE e.k = "Var" ->
            IF e.n \in DOMAIN tab.constant_values
            THEN Num(tab.constant_values[e.n]) ELSE NoExpr
      [] e.k = "Bin" ->
            LET new_left == try_constant_propagation(e.l, tab)
                new_right == try_constant_propagation(e.r, tab)
                new_bin_expr == Bin(e.op, OrElse(new_left, e.l), OrElse(new_right, e.r))
            IN  IF new_left # NoExpr \/ new_right # NoExpr
                THEN OrElse(constant_folding(new_bin_expr, tab), new_bin_expr)
                ELSE NoExpr
      [] e.k = "Un" ->
            LET new_operand == try_constant_propagation(e.e, tab)
                new_unary_expr == Un(e.op, new_operand)
            IN  IF new_operand # NoExpr
                THEN OrElse(constant_folding(new_unary_expr, tab), new_unary_expr)
                ELSE NoExpr
      [] OTHER -> NoExpr

RECURSIVE propagation_undefined(_, _)
propagation_undefined(e, tab) ==
    CASE e.k = "Bin" ->
            LET new_left == try_constant_propagation(e.l, tab)
                new_right == try_constant_propagation(e.r, tab)
                new_bin_expr == Bin(e.op, OrElse(new_left, e.l), OrElse(new_right, e.r))
            IN  \/ propagation_undefined(e.l, tab)
                \/ propagation_undefined(e.r, tab)
                \/ /\ new_left # NoExpr \/ new_right # NoExpr
                   /\ folding_undefined(new_bin_expr, tab)
      [] e.k = "Un" ->
            LET new_operand == try_constant_propagation(e.e, tab)
            IN  \/ propagation_undefined(e.e, tab)
                \/ /\ new_operand # NoExpr
                   /\ folding_undefined(Un(e.op, new_operand), tab)
      [] OTHER -> FALSE

\* "is_constant_expr(x) && evaluate_constant_expr(x) == v"
ConstantIs(x, v, tab) == is_constant_expr(x, tab) /\ evaluate_constant_expr(x, tab) = v

ConstantNonZero(x, tab) == is_constant_expr(x, tab) /\ evaluate_constant_expr(x, tab) # 0

SameVariable(l, r) == l.k = "Var" /\ r.k = "Var" /\ l.n = r.n

NegatedComparison(op) ==
    CASE op = "EQ" -> "NE"
      [] op = "NE" -> "EQ"
      [] op = "LT" -> "GE"
      [] op = "GT" -> "LE"
      [] op = "LE" -> "GT"
      [] op = "GE" -> "LT"

\* The algebraic rules of simplify_expression on a BinaryExpr that did not
\* fold, in the order the source tries them.
SimplifyBinaryRules(e, tab) ==
    CASE e.op = "ADD" ->
            IF ConstantIs(e.r, 0, tab) THEN e.l
            ELSE IF ConstantIs(e.l, 0, tab) THEN e.r
            ELSE e
      [] e.op = "MUL" ->
            IF ConstantIs(e.r, 1, tab) THEN e.l
            ELSE IF ConstantIs(e.l, 1, tab) THEN e.r
            ELSE IF ConstantIs(e.l, 0, tab) \/ ConstantIs(e.r, 0, tab) THEN Num(0)
            ELSE e
      [] e.op = "SUB" ->
            IF ConstantIs(e.r, 0, tab) THEN e.l
            ELSE IF SameVariable(e.l, e.r) THEN Num(0)
            ELSE IF ConstantIs(e.l, 0, tab) THEN Un("MINUS", e.r)
            ELSE e
      [] e.op = "DIV" -> IF ConstantIs(e.r, 1, tab) THEN e.l ELSE e
      [] e.op = "MOD" -> IF ConstantIs(e.r, 1, tab) THEN Num(0) ELSE e
      [] e.op = "AND" ->
            IF ConstantIs(e.r, 0, tab) THEN Num(0)
            ELSE IF ConstantNonZero(e.r, tab) THEN e.l
            ELSE IF ConstantIs(e.l, 0, tab) THEN Num(0)
            ELSE IF ConstantNonZero(e.l, tab) THEN e.r
            ELSE e
      [] e.op = "OR" ->
            IF ConstantIs(e.r, 0, tab) THEN e.l
            ELSE IF ConstantNonZero(e.r, tab) THEN Num(1)
            ELSE IF ConstantIs(e.l, 0, tab) THEN e.r
            ELSE IF ConstantNonZero(e.l, tab) THEN Num(1)
            ELSE e
      [] e.op \in {"EQ", "LE", "GE"} -> IF SameVariable(e.l, e.r) THEN Num(1) ELSE e
      [] e.op \in {"NE", "LT", "GT"} -> IF SameVariable(e.l, e.r) THEN Num(0) ELSE e

SimplifyUnaryRules(e) ==
    IF e.op = "MINUS" /\ e.e.k = "Un" /\ e.e.op = "MINUS" THEN e.e.e
    ELSE IF e.op = "NOT" /\ e.e.k = "Un" /\ e.e.op = "NOT" THEN Bin("NE", e.e.e, Num(0))
    ELSE IF e.op = "NOT" /\ e.e.k = "Bin"
               /\ e.e.op \in {"EQ", "NE", "LT", "GT", "LE", "GE"}
         THEN Bin(NegatedComparison(e.e.op), e.e.l, e.e.r)
    ELSE e

\* Optimizer::simplify_expression (src/src/main.cpp)
simplify_expression(expr, tab) ==
    LET e == OrElse(try_constant_propagation(expr, tab), expr)
        folded == constant_folding(e, tab)
    IN  IF e.k = "Bin" THEN
            IF folded # NoExpr THEN folded ELSE SimplifyBinaryRules(e, tab)
        ELSE IF e.k = "Un" THEN
            IF folded # NoExpr THEN folded ELSE SimplifyUnaryRules(e)
        ELSE e

\* The rules read evaluate_constant_expr of the right operand for these
\* operators and of the left operand for those.
RightRuleOps == {"ADD", "MUL", "SUB", "DIV", "MOD", "AND", "OR"}

LeftRuleOps == {"ADD", "MUL", "SUB", "AND", "OR"}

\* simplify_expression(expr) executes an operation the host leaves undefined.
simplify_undefined(expr, tab) ==
    LET e == OrElse(try_constant_propagation(expr, tab), expr)
    IN  \/ propagation_undefined(expr, tab)
        \/ folding_undefined(e, tab)
        \/ /\ e.k = "Bin"
           /\ \/ /\ e.op \in RightRuleOps
                 /\ is_constant_expr(e.r, tab) /\ evaluate_undefined(e.r, tab)
              \/ /\ e.op \in LeftRuleOps
                 /\ is_constant_expr(e.l, tab) /\ evaluate_undefined(e.l, tab)

(***************************************************************************)
(* The earlier Optimizer (part_005): folding and six rules, no tables.     *)
(***************************************************************************)
FoldingSimplifyBinaryRules(e) ==
    CASE e.op = "ADD" ->
            IF ConstantIs(e.r, 0, NoTables) THEN e.l
            ELSE IF ConstantIs(e.l, 0, NoTables) THEN e.r
            ELSE e
      [] e.op = "MUL" ->
            IF ConstantIs(e.r, 1, NoTables) THEN e.l
            ELSE IF ConstantIs(e.l, 1, NoTables) THEN e.r
            ELSE IF ConstantIs(e.l, 0, NoTables) \/ ConstantIs(e.r, 0, NoTables) THEN Num(0)
            ELSE e
      [] e.op = "SUB" -> IF ConstantIs(e.r, 0, NoTables) THEN e.l ELSE e
      [] OTHER -> e

FoldingSimplifyUnaryRules(e) ==
    IF e.op = "MINUS" /\ e.e.k = "Un" /\ e.e.op = "MINUS" THEN e.e.e
    ELSE IF e.op = "NOT" /\ e.e.k = "Un" /\ e.e.op = "NOT" THEN Bin("NE", e.e.e, Num(0))
    ELSE e

folding_simplify_expression(e) ==
    LET folded == constant_folding(e, NoTables)
    IN  IF e.k = "Bin" THEN
            IF folded # NoExpr THEN folded ELSE FoldingSimplifyBinaryRules(e)
        ELSE IF e.k = "Un" THEN
            IF folded # NoExpr THEN folded ELSE FoldingSimplifyUnaryRules(e)
        ELSE e

folding_simplify_undefined(e) ==
    \/ folding_undefined(e, NoTables)
    \/ /\ e.k = "Bin"
       /\ \/ /\ e.op \in {"ADD", "MUL", "SUB"}
             /\ is_constant_expr(e.r, NoTables) /\ evaluate_undefined(e.r, NoTables)
          \/ /\ e.op \in {"ADD", "MUL"}
             /\ is_constant_expr(e.l, NoTables) /\ evaluate_undefined(e.l, NoTables)

(***************************************************************************)
(* The value of an expression in the language: two's-complement wrap,      *)
(* comparisons and logical operators yield 0 or 1, && and || evaluate the  *)
(* right operand only when the left one does not decide.  A division by    *)
(* zero yields what the RV32 div/rem instructions yield (-1, the dividend).*)
(***************************************************************************)
TargetBinary(op, l, r) ==
    IF op = "DIV" /\ r = 0 THEN 0 - 1
    ELSE IF op = "MOD" /\ r = 0 THEN l
    ELSE HostBinary(op, l, r)

RECURSIVE Eval(_, _)
Eval(e, env) ==
    CASE e.k = "Num" -> e.v
      [] e.k = "Var" -> env[e.n]
      [] e.k = "Un" -> HostUnary(e.op, Eval(e.e, env))
      [] e.k = "Bin" ->
            IF e.op = "AND" THEN
                (IF Eval(e.l, env) = 0 THEN 0 ELSE B01(Eval(e.r, env) # 0))
            ELSE IF e.op = "OR" THEN
                (IF Eval(e.l, env) # 0 THEN 1 ELSE B01(Eval(e.r, env) # 0))
            ELSE TargetBinary(e.op, Eval(e.l, env), Eval(e.r, env))

\* Evaluating e under env executes a division or modulo by zero.
RECURSIVE DividesByZero(_, _)
DividesByZero(e, env) ==
    CASE e.k = "Un" -> DividesByZero(e.e, env)
      [] e.k = "Bin" ->
            IF e.op = "AND" THEN
                DividesByZero(e.l, env) \/ (Eval(e.l, env) # 0 /\ DividesByZero(e.r, env))
            ELSE IF e.op = "OR" THEN
                DividesByZero(e.l, env) \/ (Eval(e.l, env) = 0 /\ DividesByZero(e.r, env))
            ELSE \/ DividesByZero(e.l, env)
                 \/ DividesByZero(e.r, env)
                 \/ e.op \in {"DIV", "MOD"} /\ Eval(e.r, env) = 0
      [] OTHER -> FALSE

RECURSIVE SubExprs(_)
SubExprs(e) ==
    CASE e.k = "Bin" -> {e} \cup SubExprs(e.l) \cup SubExprs(e.r)
      [] e.k = "Un" -> {e} \cup SubExprs(e.e)
      [] OTHER -> {e}

\* The sub-expressions evaluated whenever e is evaluated.
RECURSIVE Unconditional(_)
Unconditional(e) ==
    CASE e.k = "Bin" ->
            IF e.op \in {"AND", "OR"} THEN {e} \cup Unconditional(e.l)
            ELSE {e} \cup Unconditional(e.l) \cup Unconditional(e.r)
      [] e.k = "Un" -> {e} \cup Unconditional(e.e)
      [] OTHER -> {e}

CallFree(e) == \A s \in SubExprs(e) : s.k # "Call"

VarFree(e) == \A s \in SubExprs(e) : s.k # "Var"

(***************************************************************************)
(* simplify_expression applied to one expression.                          *)
(***************************************************************************)
MaxLit == 2

VarNames == {"x", "y"}

Literals == {Num(v) : v \in (0..MaxLit) \cup {IntMax}}

Leaves == Literals \cup {Var(n) : n \in VarNames} \cup {Call("f")}

Depth1 == {Bin(op, a, b) : op \in BinOps, a \in Leaves, b \in Leaves}
             \cup {Un(op, a) : op \in UnOps, a \in Leaves}

Inner == {Bin("DIV", Num(1), Num(0)), Bin("MOD", Num(2), Num(0)), Bin("SUB", Num(1), Num(1)),
          Bin("ADD", Var("x"), Num(1)), Bin("MUL", Num(IntMax), Num(2)),
          Bin("EQ", Var("x"), Var("y")), Bin("LT", Var("x"), Num(1)),
          Bin("DIV", Num(1), Var("y")), Bin("AND", Var("x"), Var("y")),
          Un("MINUS", Var("x")), Un("NOT", Var("x")), Un("MINUS", Call("f"))}

Depth2 == {Bin(op, d, a) : op \in BinOps, d \in Inner, a \in Leaves}
             \cup {Bin(op, a, d) : op \in BinOps, d \in Inner, a \in Leaves}
             \cup {Un(op, d) : op \in UnOps, d \in Inner}

Depth3 == {Bin("ADD", Bin("DIV", Num(1), Bin("SUB", Num(1), Num(1))), Num(2)),
           Bin("AND", Bin("EQ", Var("y"), Num(0)), Bin("EQ", Bin("DIV", Num(1), Var("y")), Num(1))),
           Un("NOT", Un("NOT", Bin("ADD", Var("x"), Var("y")))),
           Bin("SUB", Un("MINUS", Var("x")), Bin("MUL", Var("x"), Num(0)))}

InputExprs == Leaves \cup Depth1 \cup Depth2 \cup Depth3

Envs == {[n \in VarNames |-> IF n = "x" THEN a ELSE b] :
             a \in {0, 1, 5, IntMax, IntMin}, b \in {0, 2}}

\* constant_values after declarations that agree with env on the names S
Recorded(env, S) == [n \in S |-> env[n]]

Crashed == [k |-> "Crashed"]

\* What a build does where the C++ is undefined: two's-complement wrap, or
\* a trap that ends the compiler.
HostOutcomes(undefined) == IF undefined THEN {"wraps", "traps"} ELSE {"wraps"}

SimplifyExpression ==
    /\ optVariant = "propagating"
    /\ optResult = NoExpr
    /\ LET tab == Tables(constant_values, is_variable_constant)
       IN  \E outcome \in HostOutcomes(simplify_undefined(optExpr, tab)) :
               optResult' = IF outcome = "traps" THEN Crashed
                            ELSE simplify_expression(optExpr, tab)
    /\ UNCHANGED <<optVariant, optExpr, optEnv, constant_values, is_variable_constant>>
    /\ UNCHANGED <<semVars, progVars, asmVars, peepVars, parseVars, allocVars, avVars, unitVars, symVars>>

FoldingSimplifyExpression ==
    /\ optVariant = "folding"
    /\ optResult = NoExpr
    /\ \E outcome \in HostOutcomes(folding_simplify_undefined(optExpr)) :
           optResult' = IF outcome = "traps" THEN Crashed
                        ELSE folding_simplify_expression(optExpr)
    /\ UNCHANGED <<optVariant, optExpr, optEnv, constant_values, is_variable_constant>>
    /\ UNCHANGED <<semVars, progVars, asmVars, peepVars, parseVars, allocVars, avVars, unitVars, symVars>>

OptInit ==
    /\ SymIdle
    /\ UnitIdle
    /\ AvIdle
    /\ PeepIdle
    /\ ParseIdle
    /\ AllocIdle
    /\ optExpr \in InputExprs
    /\ optEnv \in Envs
    /\ optResult = NoExpr
    /\ \/ /\ optVariant = "propagating"
          /\ is_variable_constant \in {{}, {"x"}, VarNames}
          /\ constant_values = Recorded(optEnv, is_variable_constant)
       \/ /\ optVariant = "folding"
          /\ is_variable_constant = {}
          /\ constant_values = <<>>
    \* the semantic analyzers are not running
    /\ semImpl = "none"
    /\ semUnit = <<>>
    /\ semIdx = 0
    /\ loopDepth = 0
    /\ inLoopStack = <<>>
    /\ semErrors = {}
    /\ semSuccess = TRUE
    \* no program is being compiled
    /\ progSrc = [k |-> "None"]
    /\ progArg = 0
    /\ enable_optimization = FALSE
    /\ progStage = "none"
    /\ progAst = [k |-> "None"]
    /\ progErrors = {}
    /\ generator = "none"
    /\ asmExpr = [k |-> "None"]
    /\ instructions = <<>>
    /\ regAllocStrategy = "none"
    /\ cg = [out |-> <<>>]
    /\ cpu = [pc |-> 0]
    /\ asmStage = "none"

OptNext == SimplifyExpression \/ FoldingSimplifyExpression

SpecOpt == OptInit /\ [][OptNext]_vars

Simplified == optResult # NoExpr /\ optResult # Crashed

\* C3 (as claimed): for a Call-free expression whose evaluation is defined,
\* with a constant table that is empty or agrees with the assignment, the
\* expression simplify_expression returns has the same value as the original
\* under 32-bit wrap-around arithmetic.
C3_SimplifyPreservesValue ==
    (Simplified /\ CallFree(optExpr) /\ ~DividesByZero(optExpr, optEnv)) =>
        /\ ~DividesByZero(optResult, optEnv)
        /\ Eval(optResult, optEnv) = Eval(optExpr, optEnv)

\* The divisions and modulos of e that are evaluated whenever e is and whose
\* divisor is a closed expression of value 0.
ZeroDivisions(e) ==
    {d \in Unconditional(e) :
        /\ d.k = "Bin" /\ d.op \in {"DIV", "MOD"}
        /\ CallFree(d.r) /\ VarFree(d.r)
        /\ ~DividesByZero(d.r, <<>>)
        /\ Eval(d.r, <<>>) = 0}

\* C8 (as claimed): a division or modulo by the constant 0 stays in place in
\* the expression the optimizer returns.
C8_ZeroDivisionKept ==
    Simplified => \A d \in ZeroDivisions(optExpr) : d \in SubExprs(optResult)

\* C9 (as claimed): every Call in an unconditionally evaluated position of
\* the original expression is still in the expression returned.
C9_CallsKept ==
    Simplified =>
        \A c \in Unconditional(optExpr) : c.k = "Call" => c \in SubExprs(optResult)

(***************************************************************************)
(* Statements with their expressions, and the Optimizer's statement        *)
(* visitor (src/src/main.cpp).  A moved-from or absent statement pointer   *)
(* is NoStmt, an absent expression NoExpr.                                 *)
(***************************************************************************)
VarDecl(n, e) == [k |-> "VarDecl", n |-> n, e |-> e]

AssignStmt(n, e) == [k |-> "Assign", n |-> n, e |-> e]

IfStmt(c, t, e) == [k |-> "If", c |-> c, t |-> t, e |-> e]

WhileStmt(c, b) == [k |-> "While", c |-> c, b |-> b]

ReturnStmt(e) == [k |-> "Return", e |-> e]

ExprStmt(e) == [k |-> "ExprStmt", e |-> e]

Block(ss) == [k |-> "Block", ss |-> ss]

BreakStmt == [k |-> "Break"]

ContinueStmt == [k |-> "Continue"]

\* The optimizer's state while it walks a function: the two tables, the
\* loop_info_stack, and whether the compiler process has died.
LoopInfo == [loop_variables |-> {}, hoisted_statements |-> <<>>]

Put(f, n, v) == [m \in DOMAIN f \cup {n} |-> IF m = n THEN v ELSE f[m]]

Erase(f, n) == [m \in DOMAIN f \ {n} |-> f[m]]

RECURSIVE collect_variables(_)
collect_variables(e) ==
    CASE e.k = "Var" -> {e.n}
      [] e.k = "Bin" -> collect_variables(e.l) \cup collect_variables(e.r)
      [] e.k = "Un" -> collect_variables(e.e)
      [] OTHER -> {}

depends_on_loop_variables(e, lis) ==
    /\ lis # <<>>
    /\ collect_variables(e) \cap lis[Len(lis)].loop_variables # {}

RECURSIVE has_side_effects(_)
has_side_effects(e) ==
    CASE e.k = "Call" -> TRUE
      [] e.k = "Bin" -> has_side_effects(e.l) \/ has_side_effects(e.r)
      [] e.k = "Un" -> has_side_effects(e.e)
      [] OTHER -> FALSE

is_unreachable_after(s) == s.k \in {"Return", "Break", "Continue"}

\* eliminate_dead_code: ss are the statements not yet looked at, out those kept.
RECURSIVE eliminate_dead_code(_, _)
eliminate_dead_code(ss, out) ==
    IF ss = <<>> THEN out
    ELSE LET s == Head(ss)
         IN  IF out # <<>> /\ is_unreachable_after(out[Len(out)])
             THEN eliminate_dead_code(Tail(ss), out)
             ELSE IF s.k = "ExprStmt" /\ s.e # NoExpr /\ ~has_side_effects(s.e)
             THEN eliminate_dead_code(Tail(ss), out)
             ELSE eliminate_dead_code(Tail(ss), Append(out, s))

\* optimize_if_statement moves a branch out of the node when the condition
\* is constant; the node keeps a null pointer in its place.
optimize_if_statement(s, tab) ==
    IF is_constant_expr(s.c, tab) THEN
        IF evaluate_constant_expr(s.c, tab) # 0 THEN [s EXCEPT !.t = NoStmt]
        ELSE [s EXCEPT !.e = NoStmt]
    ELSE s

\* hoisted(s): hoist_loop_invariants takes statement s out of the loop body.
Hoisted(s, lis) ==
    CASE s.k = "Assign" -> ~depends_on_loop_variables(s.e, lis)
      [] s.k = "ExprStmt" ->
            s.e # NoExpr /\ ~depends_on_loop_variables(s.e, lis) /\ ~has_side_effects(s.e)
      [] s.k = "VarDecl" ->
            s.e = NoExpr \/ (~depends_on_loop_variables(s.e, lis) /\ ~has_side_effects(s.e))
      [] OTHER -> FALSE

\* hoist_loop_invariants: the loop body left, and the loop_info_stack with the
\* statements taken out stored in its top entry (nothing re-inserts them).
hoist_loop_invariants(b, lis) ==
    IF lis = <<>> \/ b.k # "Block" THEN [b |-> b, lis |-> lis]
    ELSE [b |-> Block(SelectSeq(b.ss, LAMBDA s : ~Hoisted(s, lis))),
          lis |-> [lis EXCEPT ![Len(lis)].hoisted_statements =
                                  SelectSeq(b.ss, LAMBDA s : Hoisted(s, lis))]]

\* F applied to the value of v (v is evaluated once).
Bind(v, F(_)) == CHOOSE y \in {F(x) : x \in {v}} : TRUE

\* simplify_expression on a possibly absent expression, in optimizer state st;
\* build says what the host does where the C++ is undefined.
Simplify(e, st, build) ==
    IF e = NoExpr THEN [e |-> NoExpr, st |-> st]
    ELSE Bind(Tables(st.constant_values, st.is_variable_constant), LAMBDA tab :
            [e |-> simplify_expression(e, tab),
             st |-> [st EXCEPT !.crashed =
                        @ \/ (build.overflow = "traps" /\ simplify_undefined(e, tab))]])

AddLoopVariables(lis, names) ==
    IF lis = <<>> THEN lis
    ELSE [lis EXCEPT ![Len(lis)].loop_variables = @ \cup names]

RecordConstant(st, n, v) ==
    [st EXCEPT !.constant_values = Put(@, n, v), !.is_variable_constant = @ \cup {n}]

\* Optimizer::visit(VarDecl) after the initializer was simplified to r.e
VisitedVarDecl(s, r) ==
    [s |-> [s EXCEPT !.e = r.e],
     st |-> IF r.e.k = "Num" THEN RecordConstant(r.st, s.n, r.e.v) ELSE r.st]

\* Optimizer::visit(AssignStmt) after the value was simplified to r.e
VisitedAssign(s, r) ==
    [s |-> [s EXCEPT !.e = r.e],
     st |-> Bind(IF is_constant_expr(r.e, Tables(r.st.constant_values,
                                                 r.st.is_variable_constant))
                 THEN (IF r.e.k = "Num" THEN RecordConstant(r.st, s.n, r.e.v) ELSE r.st)
                 ELSE IF s.n \in r.st.is_variable_constant
                 THEN [r.st EXCEPT !.constant_values = Erase(@, s.n),
                                   !.is_variable_constant = @ \ {s.n}]
                 ELSE r.st,
                 LAMBDA recorded :
                     [recorded EXCEPT !.loop_info_stack = AddLoopVariables(@, {s.n})])]

\* The expression a statement visitor simplifies first.
FirstExpr(s) == IF s.k \in {"If", "While"} THEN s.c ELSE s.e

\* Optimizer::visit(WhileStmt) starts with enter_loop and
\* analyze_loop_invariant; the other visitors start with the expression.
Entering(s, st) ==
    IF s.k = "While"
    THEN [st EXCEPT !.loop_info_stack =
                        AddLoopVariables(Append(@, LoopInfo), collect_variables(s.c))]
    ELSE st

RECURSIVE OptVisit(_, _, _)
RECURSIVE OptVisitSeq(_, _, _, _)
RECURSIVE OptVisited(_, _, _)
\* Optimizer::visit(Block): the statements in order, then eliminate_dead_code
OptVisitSeq(ss, out, st, build) ==
    IF ss = <<>> THEN [s |-> Block(eliminate_dead_code(out, <<>>)), st |-> st]
    ELSE Bind(OptVisit(Head(ss), st, build), LAMBDA r :
            OptVisitSeq(Tail(ss), Append(out, r.s), r.st, build))

OptVisit(s, st, build) ==
    IF s.k = "Block" THEN OptVisitSeq(s.ss, <<>>, st, build)
    ELSE IF s.k \in {"Break", "Continue"} THEN [s |-> s, st |-> st]
    ELSE Bind(Simplify(FirstExpr(s), Entering(s, st), build), LAMBDA r :
            OptVisited(s, r, build))

\* The rest of a statement visitor, r.e being the simplified first expression.
OptVisited(s, r, build) ==
    CASE s.k \in {"ExprStmt", "Return"} -> [s |-> [s EXCEPT !.e = r.e], st |-> r.st]
      [] s.k = "VarDecl" -> VisitedVarDecl(s, r)
      [] s.k = "Assign" -> VisitedAssign(s, r)
      [] s.k = "If" ->
            Bind(optimize_if_statement([s EXCEPT !.c = r.e],
                     Tables(r.st.constant_values, r.st.is_variable_constant)), LAMBDA node :
            \* node.then_stmt->accept(*this), through a null pointer if moved-from
            Bind(IF node.t = NoStmt
                 THEN [s |-> NoStmt,
                       st |-> [r.st EXCEPT !.crashed = @ \/ build.nullDeref = "segfault"]]
                 ELSE OptVisit(node.t, r.st, build), LAMBDA afterThen :
            Bind(IF node.e # NoStmt THEN OptVisit(node.e, afterThen.st, build)
                 ELSE [s |-> NoStmt, st |-> afterThen.st], LAMBDA afterElse :
                [s |-> IfStmt(node.c, afterThen.s, afterElse.s), st |-> afterElse.st])))
      [] s.k = "While" ->
            Bind(hoist_loop_invariants(s.b, r.st.loop_info_stack), LAMBDA h :
            Bind(OptVisit(h.b, [r.st EXCEPT !.loop_info_stack = h.lis], build), LAMBDA b :
                [s |-> WhileStmt(r.e, b.s),
                 st |-> [b.st EXCEPT !.loop_info_stack = SubSeq(@, 1, Len(@) - 1)]]))

(***************************************************************************)
(* The meaning of a function body in the language: block scopes, while     *)
(* with break and continue, return.  A run is cut after LoopFuel loop      *)
(* iterations ("timeout").                                                 *)
(***************************************************************************)
LoopFuel == 12

Declared(scopes, n) == \E i \in 1..Len(scopes) : n \in DOMAIN scopes[i]

Innermost(scopes, n) ==
    CHOOSE i \in 1..Len(scopes) :
        /\ n \in DOMAIN scopes[i]
        /\ \A j \in (i + 1)..Len(scopes) : n \notin DOMAIN scopes[j]

Flat(scopes) ==
    [n \in UNION {DOMAIN scopes[i] : i \in 1..Len(scopes)} |->
        scopes[Innermost(scopes, n)][n]]

\* Run state: the scopes, the loop iterations left, how control leaves
\* ("run": it continues with the next statement) and the value returned.
Running(scopes, fuel) == [scopes |-> scopes, fuel |-> fuel, ctl |-> "run", val |-> 0]

Readable(e, scopes) ==
    e # NoExpr /\ \A n \in collect_variables(e) : Declared(scopes, n)

RECURSIVE ExecStmt(_, _)
RECURSIVE ExecSeq(_, _)
RECURSIVE ExecWhile(_, _)
ExecSeq(ss, st) ==
    IF ss = <<>> \/ st.ctl # "run" THEN st
    ELSE ExecSeq(Tail(ss), ExecStmt(Head(ss), st))

ExecWhile(s, st) ==
    IF st.ctl # "run" THEN st
    ELSE IF ~Readable(s.c, st.scopes) THEN [st EXCEPT !.ctl = "fault"]
    ELSE IF Eval(s.c, Flat(st.scopes)) = 0 THEN st
    ELSE IF st.fuel = 0 THEN [st EXCEPT !.ctl = "timeout"]
    ELSE LET after == ExecStmt(s.b, [st EXCEPT !.fuel = @ - 1])
         IN  IF after.ctl = "break" THEN [after EXCEPT !.ctl = "run"]
             ELSE IF after.ctl = "continue" THEN ExecWhile(s, [after EXCEPT !.ctl = "run"])
             ELSE ExecWhile(s, after)

ExecStmt(s, st) ==
    CASE s.k = "Block" ->
            LET inner == ExecSeq(s.ss, [st EXCEPT !.scopes = Append(@, <<>>)])
            IN  [inner EXCEPT !.scopes = SubSeq(@, 1, Len(@) - 1)]
      [] s.k = "VarDecl" ->
            IF ~Readable(s.e, st.scopes) THEN [st EXCEPT !.ctl = "fault"]
            ELSE [st EXCEPT !.scopes[Len(st.scopes)] =
                                Put(@, s.n, Eval(s.e, Flat(st.scopes)))]
      [] s.k = "Assign" ->
            IF ~Readable(s.e, st.scopes) \/ ~Declared(st.scopes, s.n)
            THEN [st EXCEPT !.ctl = "fault"]
            ELSE [st EXCEPT !.scopes[Innermost(st.scopes, s.n)] =
                                Put(@, s.n, Eval(s.e, Flat(st.scopes)))]
      [] s.k = "If" ->
            IF ~Readable(s.c, st.scopes) THEN [st EXCEPT !.ctl = "fault"]
            ELSE LET branch == IF Eval(s.c, Flat(st.scopes)) # 0 THEN s.t ELSE s.e
                 IN  IF branch = NoStmt THEN st ELSE ExecStmt(branch, st)
      [] s.k = "While" -> ExecWhile(s, st)
      [] s.k = "Return" ->
            IF s.e = NoExpr THEN [st EXCEPT !.ctl = "return"]
            ELSE IF ~Readable(s.e, st.scopes) THEN [st EXCEPT !.ctl = "fault"]
            ELSE [st EXCEPT !.ctl = "return", !.val = Eval(s.e, Flat(st.scopes))]
      [] s.k = "Break" -> [st EXCEPT !.ctl = "break"]
      [] s.k = "Continue" -> [st EXCEPT !.ctl = "continue"]
      [] OTHER -> st

\* How a call of the function with body b and argument p = arg ends.
RunFunction(b, arg) ==
    LET st == ExecStmt(b, Running(<<[n \in {"p"} |-> arg]>>, LoopFuel))
    IN  [ctl |-> st.ctl, val |-> st.val]

(***************************************************************************)
(* The driver of src/src/main.cpp on one function: semantic analysis, the  *)
(* optimizer when -opt is given, code generation.                          *)
(***************************************************************************)
X == Var("x")

Y == Var("y")

P == Var("p")

ShadowVals == {3, 7}

\* int x=a; { int x=b; } return x;
ShadowDecl(a, b) ==
    Block(<<VarDecl("x", Num(a)), Block(<<VarDecl("x", Num(b))>>), ReturnStmt(X)>>)

\* int x=a; int y=0; { int x=b; y=x; } return x+y;
ShadowUse(a, b) ==
    Block(<<VarDecl("x", Num(a)), VarDecl("y", Num(0)),
            Block(<<VarDecl("x", Num(b)), AssignStmt("y", X)>>),
            ReturnStmt(Bin("ADD", X, Y))>>)

\* int x=a; { int x=b; x=x+p; } return x;
ShadowAssign(a, b) ==
    Block(<<VarDecl("x", Num(a)),
            Block(<<VarDecl("x", Num(b)), AssignStmt("x", Bin("ADD", X, P))>>),
            ReturnStmt(X)>>)

\* int x=p+a; { int x=b; } return x;
ShadowOfUnknown(a, b) ==
    Block(<<VarDecl("x", Bin("ADD", P, Num(a))), Block(<<VarDecl("x", Num(b))>>),
            ReturnStmt(X)>>)

ShadowPrograms ==
    UNION {{ShadowDecl(a, b), ShadowUse(a, b), ShadowAssign(a, b), ShadowOfUnknown(a, b)} :
               a \in ShadowVals, b \in ShadowVals}

LoopLimits == {0, 1, 3, 10}

\* int s=s0; int i=0; while(i<n){ s=s+i; i=i+1; } return s;
LoopSum(s0, n) ==
    Block(<<VarDecl("x", Num(s0)), VarDecl("y", Num(0)),
            WhileStmt(Bin("LT", Y, Num(n)),
                      Block(<<AssignStmt("x", Bin("ADD", X, Y)),
                              AssignStmt("y", Bin("ADD", Y, Num(1)))>>)),
            ReturnStmt(X)>>)

\* int s=0; int i=p; while(i<n){ s=s+i; i=i+1; } return s;
LoopFromArg(n) ==
    Block(<<VarDecl("x", Num(0)), VarDecl("y", P),
            WhileStmt(Bin("LT", Y, Num(n)),
                      Block(<<AssignStmt("x", Bin("ADD", X, Y)),
                              AssignStmt("y", Bin("ADD", Y, Num(1)))>>)),
            ReturnStmt(X)>>)

\* int c=0; int i=p; while(i<n){ i=i+1; if(i==2) continue; c=c+i; if(c>3) break; } return c;
LoopControl(n) ==
    Block(<<VarDecl("x", Num(0)), VarDecl("y", P),
            WhileStmt(Bin("LT", Y, Num(n)),
                      Block(<<AssignStmt("y", Bin("ADD", Y, Num(1))),
                              IfStmt(Bin("EQ", Y, Num(2)), ContinueStmt, NoStmt),
                              AssignStmt("x", Bin("ADD", X, Y)),
                              IfStmt(Bin("GT", X, Num(3)), BreakStmt, NoStmt)>>)),
            ReturnStmt(X)>>)

LoopPrograms ==
    {LoopSum(s0, n) : s0 \in {0, 1}, n \in LoopLimits}
        \cup {LoopFromArg(n) : n \in LoopLimits}
        \cup {LoopControl(n) : n \in LoopLimits}

\* int a=a0; int b=0; if(a==0 && 1/a==1) b=b1; return b;
IfDivision(a0, b1) ==
    Block(<<VarDecl("x", Num(a0)), VarDecl("y", Num(0)),
            IfStmt(Bin("AND", Bin("EQ", X, Num(0)),
                              Bin("EQ", Bin("DIV", Num(1), X), Num(1))),
                   AssignStmt("y", Num(b1)), NoStmt),
            ReturnStmt(Y)>>)

\* int b=b0; if(p) b=b1; return b;
IfArg(b0, b1) ==
    Block(<<VarDecl("y", Num(b0)), IfStmt(P, AssignStmt("y", Num(b1)), NoStmt),
            ReturnStmt(Y)>>)

\* int b=b0; if(p) b=b1; else { b=b0+1; } return b;
IfElseArg(b0, b1) ==
    Block(<<VarDecl("y", Num(b0)),
            IfStmt(P, AssignStmt("y", Num(b1)),
                      Block(<<AssignStmt("y", Bin("ADD", Y, Num(1)))>>)),
            ReturnStmt(Y)>>)

\* int a=a0; int b=0; if(a) b=1; else b=2; return b;   and with a literal 1/0
IfConstant(a0) ==
    Block(<<VarDecl("x", Num(a0)), VarDecl("y", Num(0)),
            IfStmt(X, AssignStmt("y", Num(1)), AssignStmt("y", Num(2))),
            ReturnStmt(Y)>>)

IfLiteralDivision ==
    Block(<<VarDecl("y", Num(0)),
            IfStmt(Bin("DIV", Num(1), Num(0)), AssignStmt("y", Num(1)), NoStmt),
            ReturnStmt(Y)>>)

IfPrograms ==
    {IfDivision(a0, b1) : a0 \in {0, 1, 2}, b1 \in {1, 2}}
        \cup {IfArg(b0, b1) : b0 \in {0, 5}, b1 \in {1, 5}}
        \cup {IfElseArg(b0, b1) : b0 \in {0, 5}, b1 \in {1, 5}}
        \cup {IfConstant(a0) : a0 \in {0, 1}}
        \cup {IfLiteralDivision}

\* The programs with an If whose branch assigns a constant.
GuardedPrograms ==
    {IfDivision(a0, b1) : a0 \in {0, 1, 2}, b1 \in {1, 2}}
        \cup {IfArg(b0, b1) : b0 \in {0, 5}, b1 \in {1, 5}}
        \cup {IfElseArg(b0, b1) : b0 \in {0, 5}, b1 \in {1, 5}}

\* int x=0; while(p>0){ x=v; p=p-1; } return x;
HoistConstant(v) ==
    Block(<<VarDecl("x", Num(0)),
            WhileStmt(Bin("GT", P, Num(0)),
                      Block(<<AssignStmt("x", Num(v)),
                              AssignStmt("p", Bin("SUB", P, Num(1)))>>)),
            ReturnStmt(X)>>)

\* int x=0; while(p>0){ x=x+v; p=p-1; } return x;
HoistAccumulate(v) ==
    Block(<<VarDecl("x", Num(0)),
            WhileStmt(Bin("GT", P, Num(0)),
                      Block(<<AssignStmt("x", Bin("ADD", X, Num(v))),
                              AssignStmt("p", Bin("SUB", P, Num(1)))>>)),
            ReturnStmt(X)>>)

\* int x=0; while(p>0){ x=p; p=p-1; } return x;
HoistDependent ==
    Block(<<VarDecl("x", Num(0)),
            WhileStmt(Bin("GT", P, Num(0)),
                      Block(<<AssignStmt("x", P),
                              AssignStmt("p", Bin("SUB", P, Num(1)))>>)),
            ReturnStmt(X)>>)

HoistPrograms ==
    {HoistConstant(v) : v \in {1, 7}} \cup {HoistAccumulate(v) : v \in {1, 7}}
        \cup {HoistDependent}

Programs == ShadowPrograms \cup LoopPrograms \cup IfPrograms \cup HoistPrograms

\* The expressions of a statement and of the statements in it.
RECURSIVE StmtExprs(_)
StmtExprs(s) ==
    CASE s.k = "Block" -> UNION {StmtExprs(s.ss[i]) : i \in 1..Len(s.ss)}
      [] s.k \in {"VarDecl", "Assign", "ExprStmt", "Return"} -> {s.e} \ {NoExpr}
      [] s.k = "If" ->
            {s.c} \cup StmtExprs(s.t) \cup (IF s.e # NoStmt THEN StmtExprs(s.e) ELSE {})
      [] s.k = "While" -> {s.c} \cup StmtExprs(s.b)
      [] OTHER -> {}

\* SemanticAnalyzer::visit(BinaryExpr): a DIV or MOD whose right operand is
\* the literal 0 is reported.
division_by_zero(e) ==
    \E d \in SubExprs(e) : d.k = "Bin" /\ d.op \in {"DIV", "MOD"} /\ d.r = Num(0)

\* The control-flow skeleton the return and loop checks read.
RECURSIVE Skeleton(_)
Skeleton(s) ==
    CASE s.k = "Block" -> BlockS([i \in 1..Len(s.ss) |-> Skeleton(s.ss[i])])
      [] s.k = "If" -> IfS(Skeleton(s.t), IF s.e = NoStmt THEN NoStmt ELSE Skeleton(s.e))
      [] s.k = "While" -> WhileS(Skeleton(s.b))
      [] s.k = "Return" -> RetS
      [] s.k = "Break" -> BrkS
      [] s.k = "Continue" -> ContS
      [] OTHER -> ExS

Analyze ==
    /\ progStage = "parsed"
    /\ LET flow == T2FunctionResult(FuncDef("int", Skeleton(progAst)), 1, <<>>).errs
           errors == {e.kind : e \in flow}
                        \cup {"DIVISION_BY_ZERO" : e \in {x \in StmtExprs(progAst) :
                                                             division_by_zero(x)}}
       IN  /\ progErrors' = errors
           /\ progStage' = IF errors = {} THEN "analyzed" ELSE "rejected"
    /\ UNCHANGED <<progSrc, progArg, enable_optimization, progAst>>
    /\ UNCHANGED <<semVars, optVars, asmVars, peepVars, parseVars, allocVars, avVars, unitVars, symVars>>

Builds == [overflow : {"wraps", "traps"}, nullDeref : {"segfault", "skipped"}]

Optimize ==
    /\ progStage = "analyzed"
    /\ enable_optimization
    /\ \E build \in Builds :
          LET start == [constant_values |-> <<>>, is_variable_constant |-> {},
                        loop_info_stack |-> <<>>, crashed |-> FALSE]
              r == OptVisit(progAst, start, build)
          IN  /\ progAst' = r.s
              /\ constant_values' = r.st.constant_values
              /\ is_variable_constant' = r.st.is_variable_constant
              /\ progStage' = IF r.st.crashed THEN "crashed" ELSE "optimized"
    /\ UNCHANGED <<progSrc, progArg, enable_optimization, progErrors>>
    /\ UNCHANGED <<optVariant, optExpr, optEnv, optResult>>
    /\ UNCHANGED <<semVars, asmVars, peepVars, parseVars, allocVars, avVars, unitVars, symVars>>

Generate ==
    /\ \/ progStage = "optimized"
       \/ progStage = "analyzed" /\ ~enable_optimization
    /\ progStage' = "compiled"
    /\ UNCHANGED <<progSrc, progArg, enable_optimization, progAst, progErrors>>
    /\ UNCHANGED <<semVars, optVars, asmVars, peepVars, parseVars, allocVars, avVars, unitVars, symVars>>

ProgInit ==
    /\ SymIdle
    /\ UnitIdle
    /\ AvIdle
    /\ PeepIdle
    /\ ParseIdle
    /\ AllocIdle
    /\ progSrc \in Programs
    /\ progArg \in {0, 1, 2}
    /\ enable_optimization \in BOOLEAN
    /\ progStage = "parsed"
    /\ progAst = progSrc
    /\ progErrors = {}
    /\ generator = "none"
    /\ asmExpr = [k |-> "None"]
    /\ instructions = <<>>
    /\ regAllocStrategy = "none"
    /\ cg = [out |-> <<>>]
    /\ cpu = [pc |-> 0]
    /\ asmStage = "none"
    \* no single expression is being simplified
    /\ optVariant = "none"
    /\ optExpr = [k |-> "None"]
    /\ optEnv = <<>>
    /\ constant_values = <<>>
    /\ is_variable_constant = {}
    /\ optResult = [k |-> "None"]
    \* the stand-alone analyzers are not running
    /\ semImpl = "none"
    /\ semUnit = <<>>
    /\ semIdx = 0
    /\ loopDepth = 0
    /\ inLoopStack = <<>>
    /\ semErrors = {}
    /\ semSuccess = TRUE

ProgNext == Analyze \/ Optimize \/ Generate

SpecProg == ProgInit /\ [][ProgNext]_vars

Compiled == progStage = "compiled"

Finished == progStage \in {"compiled", "rejected", "crashed"}

SameRun == RunFunction(progAst, progArg) = RunFunction(progSrc, progArg)

\* C5 (as claimed): with optimization on, a program with a declaration in an
\* inner block that shadows an outer variable runs as before: references
\* after the block still see the outer variable, references in it the inner.
C5_ShadowKeepsOuter ==
    (Compiled /\ enable_optimization /\ progSrc \in ShadowPrograms) => SameRun

RECURSIVE Statements(_)
Statements(s) ==
    CASE s.k = "Block" -> {s} \cup UNION {Statements(s.ss[i]) : i \in 1..Len(s.ss)}
      [] s.k = "If" ->
            {s} \cup (IF s.t # NoStmt THEN Statements(s.t) ELSE {})
                \cup (IF s.e # NoStmt THEN Statements(s.e) ELSE {})
      [] s.k = "While" -> {s} \cup Statements(s.b)
      [] OTHER -> {s}

\* C6 (as claimed): with optimization on, the condition of a loop that
\* assigns its variables is not folded to a constant and the program runs
\* as before (45 for the sum below 10).
C6_LoopVariablesInvalidated ==
    (Compiled /\ enable_optimization /\ progSrc \in LoopPrograms) =>
        /\ \A w \in Statements(progAst) : w.k = "While" => w.c.k # "Num"
        /\ SameRun

\* C7 (as claimed): with or without -opt, the program with the guarded
\* division is rejected with DivisionByZero or compiled to a program that
\* returns 0, and no program has a constant that is assigned in a branch of
\* an If propagated past the If (it runs as before).
C7_GuardedDivision ==
    (Finished /\ progSrc \in GuardedPrograms) =>
        \/ "DIVISION_BY_ZERO" \in progErrors
        \/ /\ Compiled
           /\ SameRun
           /\ progSrc = IfDivision(0, 1) =>
                  RunFunction(progAst, progArg) = [ctl |-> "return", val |-> 0]

(***************************************************************************)
(* RISC-V.  The lines the two code generators emit, and what an RV32IM     *)
(* hart does with each of them.                                            *)
(***************************************************************************)
NoLabel == <<"", 0>>

Ins(op, rd, rs1, rs2, imm, lab) ==
    [op |-> op, rd |-> rd, rs1 |-> rs1, rs2 |-> rs2, imm |-> imm, lab |-> lab]

Li(rd, imm) == Ins("li", rd, "", "", imm, NoLabel)
Addi(rd, rs, imm) == Ins("addi", rd, rs, "", imm, NoLabel)
Xori(rd, rs, imm) == Ins("xori", rd, rs, "", imm, NoLabel)
Mv(rd, rs) == Ins("mv", rd, rs, "", 0, NoLabel)
\* add, sub, mul, div, rem, slt, xor
Alu(op, rd, rs1, rs2) == Ins(op, rd, rs1, rs2, 0, NoLabel)
\* neg, seqz, snez
Alu1(op, rd, rs) == Ins(op, rd, rs, "", 0, NoLabel)
\* sw rs, imm(base) and lw rd, imm(base)
Sw(rs, imm, base) == Ins("sw", "", base, rs, imm, NoLabel)
Lw(rd, imm, base) == Ins("lw", rd, base, "", imm, NoLabel)
\* beqz, bnez
Branch(op, rs, lab) == Ins(op, "", rs, "", 0, lab)
Jump(lab) == Ins("j", "", "", "", 0, lab)
Label(lab) == Ins("label", "", "", "", 0, lab)
Ret == Ins("ret", "", "", "", 0, NoLabel)

TRegs == {"t0", "t1", "t2", "t3", "t4", "t5", "t6"}
SRegSeq == <<"s0", "s1", "s2", "s3", "s4", "s5", "s6", "s7", "s8", "s9", "s10", "s11">>
SRegs == {SRegSeq[i] : i \in 1..Len(SRegSeq)}
ARegs == {"a0", "a1", "a2", "a3", "a4", "a5", "a6", "a7"}
RegNames == {"ra", "sp"} \cup TRegs \cup SRegs \cup ARegs

\* fp is the ABI name of s0
Canon(r) == IF r = "fp" THEN "s0" ELSE r

ReadReg(x, r) == IF r = "zero" THEN 0 ELSE x[Canon(r)]

WriteReg(x, r, v) == IF r = "zero" THEN x ELSE [x EXCEPT ![Canon(r)] = v]

\* the instructions that write their rd
WritesRd(i) == i.op \notin {"sw", "beqz", "bnez", "j", "label", "ret"}

Not32(a) == (0 - 1) - a

RECURSIVE XorNat(_, _)
XorNat(a, b) ==
    IF a = 0 THEN b
    ELSE IF b = 0 THEN a
    ELSE 2 * XorNat(a \div 2, b \div 2) + (((a % 2) + (b % 2)) % 2)

\* bitwise exclusive or of two's-complement words
Xor32(a, b) ==
    IF a >= 0 /\ b >= 0 THEN XorNat(a, b)
    ELSE IF a < 0 /\ b < 0 THEN XorNat(Not32(a), Not32(b))
    ELSE IF a < 0 THEN Not32(XorNat(Not32(a), b))
    ELSE Not32(XorNat(a, Not32(b)))

AluResult(op, l, r) ==
    CASE op = "add" -> Add32(l, r)
      [] op = "sub" -> Sub32(l, r)
      [] op = "mul" -> Mul32(l, r)
      [] op = "div" -> IF r = 0 THEN 0 - 1 ELSE Div32(l, r)
      [] op = "rem" -> IF r = 0 THEN l ELSE Mod32(l, r)
      [] op = "slt" -> B01(l < r)
      [] op = "xor" -> Xor32(l, r)

Alu1Result(op, v) ==
    CASE op = "neg" -> Neg32(v)
      [] op = "seqz" -> B01(v = 0)
      [] op = "snez" -> B01(v # 0)

\* The stack the function runs on: sp on entry, and how far it may reach.
StackTop == 4096
StackBytes == 256

ValidAddress(a) ==
    /\ a % 4 = 0
    /\ a >= StackTop - StackBytes
    /\ a < StackTop + StackBytes

\* What a load finds in a stack word nothing was stored to.
Garbage == {0, 77}

\* The registers at the call: every callee-saved register, sp and ra hold a
\* value of the caller that no operand of the programs below equals.
EntryRegs ==
    [r \in RegNames |->
        CASE r = "sp" -> StackTop
          [] r = "ra" -> 20000
          [] r \in SRegs -> 1000 + 4 * (CHOOSE i \in 1..Len(SRegSeq) : SRegSeq[i] = r)
          [] OTHER -> 0]

EntryCpu == [pc |-> 1, x |-> EntryRegs, mem |-> <<>>, ranRight |-> FALSE, status |-> "running"]

HasLabel(code, lab) == \E j \in 1..Len(code) : code[j] = Label(lab)

Target(code, lab) == CHOOSE j \in 1..Len(code) : code[j] = Label(lab)

\* One instruction of code on hart c; right is the set of lines that evaluate
\* the right operand of the returned expression, g what an unwritten stack
\* word holds.
Step(c, code, right, g) ==
    IF c.pc > Len(code) THEN [c EXCEPT !.status = "fault"]
    ELSE LET i == code[c.pc]
             next == [c EXCEPT !.pc = @ + 1, !.ranRight = @ \/ c.pc \in right]
             fault == [c EXCEPT !.status = "fault"]
             goto == IF HasLabel(code, i.lab)
                     THEN [next EXCEPT !.pc = Target(code, i.lab)] ELSE fault
             addr == Add32(ReadReg(c.x, i.rs1), i.imm)
         IN CASE i.op = "li" -> [next EXCEPT !.x = WriteReg(@, i.rd, i.imm)]
              [] i.op = "mv" -> [next EXCEPT !.x = WriteReg(@, i.rd, ReadReg(c.x, i.rs1))]
              [] i.op = "addi" ->
                    [next EXCEPT !.x = WriteReg(@, i.rd, Add32(ReadReg(c.x, i.rs1), i.imm))]
              [] i.op = "xori" ->
                    [next EXCEPT !.x = WriteReg(@, i.rd, Xor32(ReadReg(c.x, i.rs1), i.imm))]
              [] i.op \in {"add", "sub", "mul", "div", "rem", "slt", "xor"} ->
                    [next EXCEPT !.x = WriteReg(@, i.rd,
                        AluResult(i.op, ReadReg(c.x, i.rs1), ReadReg(c.x, i.rs2)))]
              [] i.op \in {"neg", "seqz", "snez"} ->
                    [next EXCEPT !.x = WriteReg(@, i.rd, Alu1Result(i.op, ReadReg(c.x, i.rs1)))]
              [] i.op = "sw" ->
                    IF ValidAddress(addr)
                    THEN [next EXCEPT !.mem = Put(@, addr, ReadReg(c.x, i.rs2))]
                    ELSE fault
              [] i.op = "lw" ->
                    IF ValidAddress(addr)
                    THEN [next EXCEPT !.x = WriteReg(@, i.rd,
                             IF addr \in DOMAIN c.mem THEN c.mem[addr] ELSE g)]
                    ELSE fault
              [] i.op = "beqz" -> IF ReadReg(c.x, i.rs1) = 0 THEN goto ELSE next
              [] i.op = "bnez" -> IF ReadReg(c.x, i.rs1) # 0 THEN goto ELSE next
              [] i.op = "j" -> goto
              [] i.op = "label" -> [c EXCEPT !.pc = @ + 1]
              [] i.op = "ret" -> [c EXCEPT !.status = "returned"]

(***************************************************************************)
(* The symbol table (src/src/symbol_table.cpp).  scopes is the chain from  *)
(* the global scope (first) to current_scope (last); a scope's symbols map *)
(* a name to its symbol.                                                   *)
(***************************************************************************)
MaxDepth == 3

MaxLevel == 4

MaxSlots == 3

SymNames == {"x", "y", "z"}

Scope(scope_level) == [level |-> scope_level, symbols |-> <<>>]

Symbol(sym_type, dt, scope) ==
    [symbol_type |-> sym_type, data_type |-> dt, scope_level |-> scope, stack_offset |-> 0,
     param_types |-> <<>>]

\* SymbolTable::SymbolTable
SymbolTable == [scopes |-> <<Scope(0)>>, next_scope_level |-> 1, scope_stack_size |-> <<0>>]

Back(s) == s[Len(s)]

enter_scope(t) ==
    [t EXCEPT !.scopes = Append(@, Scope(t.next_scope_level)),
              !.next_scope_level = @ + 1,
              !.scope_stack_size = Append(@, 0)]

exit_scope(t) ==
    IF Len(t.scopes) > 1
    THEN [t EXCEPT !.scopes = SubSeq(@, 1, Len(@) - 1),
                   !.scope_stack_size = SubSeq(@, 1, Len(@) - 1)]
    ELSE t

\* the table after the count of the innermost scope is raised, and the
\* symbol with its offset
allocate_stack_space(t, symbol) ==
    LET raised == [t EXCEPT !.scope_stack_size[Len(t.scope_stack_size)] = @ + 1]
        size == Back(raised.scope_stack_size)
    IN  CASE symbol.symbol_type = "VARIABLE" ->
                 [t |-> raised, symbol |-> [symbol EXCEPT !.stack_offset = (0 - size) * 4]]
          [] symbol.symbol_type = "PARAMETER" ->
                 [t |-> raised, symbol |-> [symbol EXCEPT !.stack_offset = size * 4]]
          [] OTHER -> [t |-> t, symbol |-> symbol]

\* Scope::define on the scope at position i
define(t, i, name, symbol) ==
    IF name \in DOMAIN t.scopes[i].symbols
    THEN [t |-> t, ok |-> FALSE]
    ELSE [t |-> [t EXCEPT !.scopes[i].symbols = (name :> symbol) @@ @], ok |-> TRUE]

define_variable(t, name) ==
    LET a == allocate_stack_space(t, Symbol("VARIABLE", "INT", Back(t.scopes).level))
    IN  define(a.t, Len(a.t.scopes), name, a.symbol)

define_parameter(t, name) ==
    LET a == allocate_stack_space(t, Symbol("PARAMETER", "INT", Back(t.scopes).level))
    IN  define(a.t, Len(a.t.scopes), name, a.symbol)

define_function(t, name, return_type, param_types) ==
    define(t, 1, name, [Symbol("FUNCTION", return_type, 0) EXCEPT !.param_types = param_types])

\* the positions of the scopes that hold name
Holders(t, name) == {i \in 1..Len(t.scopes) : name \in DOMAIN t.scopes[i].symbols}

IsDefined(t, name) == Holders(t, name) # {}

\* Scope::lookup from current_scope: the innermost scope that holds name
lookup_symbol(t, name) ==
    LET i == CHOOSE k \in Holders(t, name) : \A j \in Holders(t, name) : j <= k
    IN  t.scopes[i].symbols[name]

(***************************************************************************)
(* The AST code generator (src/src/code_generator.cpp) on                  *)
(* `int main(){ return E; }`, E without variables and calls.               *)
(***************************************************************************)
temp_registers == <<"t0", "t1", "t2", "t3", "t4", "t5", "t6">>

emit(st, lines) == [st EXCEPT !.out = @ \o lines]

push_register(reg) == <<Addi("sp", "sp", 0 - 4), Sw(reg, 0, "sp")>>

pop_register(reg) == <<Lw(reg, 0, "sp"), Addi("sp", "sp", 4)>>

\* the first free temporary; with none free, t0 after pushing it
allocate_temp_register(state) ==
    Bind(state, LAMBDA st :
    IF \E i \in 1..Len(temp_registers) : temp_registers[i] \notin st.register_used
    THEN LET i == CHOOSE k \in 1..Len(temp_registers) :
                      /\ temp_registers[k] \notin st.register_used
                      /\ \A j \in 1..(k - 1) : temp_registers[j] \in st.register_used
         IN [st |-> [st EXCEPT !.register_used = @ \cup {temp_registers[i]}],
             reg |-> temp_registers[i]]
    ELSE [st |-> emit(st, push_register(temp_registers[1])), reg |-> temp_registers[1]])

free_temp_register(st, reg) == [st EXCEPT !.register_used = @ \ {reg}]

\* the arithmetic and comparison cases of generate_expr
BinaryLines(op, result_reg, left_reg, right_reg) ==
    CASE op = "ADD" -> <<Alu("add", result_reg, left_reg, right_reg)>>
      [] op = "SUB" -> <<Alu("sub", result_reg, left_reg, right_reg)>>
      [] op = "MUL" -> <<Alu("mul", result_reg, left_reg, right_reg)>>
      [] op = "DIV" -> <<Alu("div", result_reg, left_reg, right_reg)>>
      [] op = "MOD" -> <<Alu("rem", result_reg, left_reg, right_reg)>>
      [] op = "LT" -> <<Alu("slt", result_reg, left_reg, right_reg)>>
      [] op = "GT" -> <<Alu("slt", result_reg, right_reg, left_reg)>>
      [] op = "LE" -> <<Alu("slt", result_reg, right_reg, left_reg), Xori(result_reg, result_reg, 1)>>
      [] op = "GE" -> <<Alu("slt", result_reg, left_reg, right_reg), Xori(result_reg, result_reg, 1)>>
      [] op = "EQ" -> <<Alu("sub", result_reg, left_reg, right_reg), Alu1("seqz", result_reg, result_reg)>>
      [] op = "NE" -> <<Alu("sub", result_reg, left_reg, right_reg), Alu1("snez", result_reg, result_reg)>>

UnaryLines(op, result_reg, operand_reg) ==
    CASE op = "PLUS" -> <<Mv(result_reg, operand_reg)>>
      [] op = "MINUS" -> <<Alu1("neg", result_reg, operand_reg)>>
      [] op = "NOT" -> <<Alu1("seqz", result_reg, operand_reg)>>

load_variable(name, state) ==
    Bind(state, LAMBDA st :
    LET a == allocate_temp_register(st)
    IN  IF ~IsDefined(st.symbol_table, name)
        THEN [st |-> emit(a.st, <<Li(a.reg, 0)>>), reg |-> a.reg]
        ELSE [st |-> emit(a.st, <<Lw(a.reg, lookup_symbol(st.symbol_table, name).stack_offset, "sp")>>),
              reg |-> a.reg])

store_variable(name, value_reg, state) ==
    Bind(state, LAMBDA st :
    IF ~IsDefined(st.symbol_table, name)
    THEN st
    ELSE emit(st, <<Sw(value_reg, lookup_symbol(st.symbol_table, name).stack_offset, "sp")>>))

RECURSIVE generate_expr(_, _)
RECURSIVE generate_short_circuit(_, _)
\* generate_short_circuit_and and generate_short_circuit_or: they differ in
\* the label names, the branch (beqz / bnez) and the constant (0 / 1).
\* st.right records the lines that evaluate the right operand.
generate_short_circuit(expr, state) ==
    Bind(state, LAMBDA st :
    LET isAnd == expr.op = "AND"
        skip_label == <<IF isAnd THEN "and_false" ELSE "or_true", st.next_label_id>>
        end_label == <<IF isAnd THEN "and_end" ELSE "or_end", st.next_label_id + 1>>
        result == allocate_temp_register([st EXCEPT !.next_label_id = @ + 2])
        left == generate_expr(expr.l, result.st)
        branched == emit(left.st,
                         <<Branch(IF isAnd THEN "beqz" ELSE "bnez", left.reg, skip_label)>>)
        right == generate_expr(expr.r, branched)
        joined == emit(right.st, <<Mv(result.reg, right.reg),
                                   Jump(end_label),
                                   Label(skip_label),
                                   Li(result.reg, IF isAnd THEN 0 ELSE 1),
                                   Label(end_label)>>)
    IN [st |-> [free_temp_register(free_temp_register(joined, left.reg), right.reg)
                   EXCEPT !.right = (Len(branched.out) + 1)..Len(right.st.out)],
        reg |-> result.reg])

generate_expr(expr, state) ==
    Bind(state, LAMBDA st :
    CASE expr.k = "Num" ->
            LET a == allocate_temp_register(st)
            IN [st |-> emit(a.st, <<Li(a.reg, expr.v)>>), reg |-> a.reg]
      [] expr.k = "Var" -> load_variable(expr.n, st)
      [] expr.k = "Bin" /\ expr.op \in {"AND", "OR"} -> generate_short_circuit(expr, st)
      [] expr.k = "Bin" /\ expr.op \notin {"AND", "OR"} ->
            LET left == generate_expr(expr.l, st)
                right == generate_expr(expr.r, left.st)
                result == allocate_temp_register(right.st)
                lines == BinaryLines(expr.op, result.reg, left.reg, right.reg)
            IN [st |-> free_temp_register(
                           free_temp_register(emit(result.st, lines), left.reg), right.reg),
                reg |-> result.reg]
      [] expr.k = "Un" ->
            LET operand == generate_expr(expr.e, st)
                result == allocate_temp_register(operand.st)
                lines == UnaryLines(expr.op, result.reg, operand.reg)
            IN [st |-> free_temp_register(emit(result.st, lines), operand.reg),
                reg |-> result.reg]
      [] OTHER ->
            LET a == allocate_temp_register(st)
            IN [st |-> emit(a.st, <<Li(a.reg, 0)>>), reg |-> a.reg])

setup_function_prologue == push_register("ra") \o push_register("s0") \o <<Mv("s0", "sp")>>

setup_function_epilogue == <<Mv("sp", "s0")>> \o pop_register("s0") \o pop_register("ra") \o <<Ret>>

\* CodeGenerator::visit(ReturnStmt) with a value
VisitReturn(expr, state) ==
    Bind(generate_expr(expr, state), LAMBDA r :
        emit(free_temp_register(IF r.reg # "a0" THEN emit(r.st, <<Mv("a0", r.reg)>>) ELSE r.st,
                                r.reg),
             setup_function_epilogue))

\* CodeGenerator::visit(FuncDef) of `int main(){ return expr; }`
VisitFuncDef(expr, st) ==
    emit(VisitReturn(expr, emit(st, <<Label(<<"main", 0>>)>> \o setup_function_prologue)),
         setup_function_epilogue)

\* the fields of a new CodeGenerator
AstStart ==
    [out |-> <<>>, register_used |-> {}, next_label_id |-> 0, right |-> {},
     symbol_table |-> SymbolTable]

(***************************************************************************)
(* The IR and its code generator (src/unnamed/part_011).                   *)
(***************************************************************************)
Constant(v) == [type |-> "CONSTANT", name |-> "", value |-> v]
Variable(n) == [type |-> "VARIABLE", name |-> n, value |-> 0]
Temp(n) == [type |-> "TEMP", name |-> n, value |-> 0]
NoOperand == [type |-> "NONE", name |-> "", value |-> 0]

\* BinaryOpInstr, AssignInstr, ReturnInstr, FunctionBeginInstr, FunctionEndInstr
IrInstr(opcode, result, left, right) ==
    [opcode |-> opcode, result |-> result, left |-> left, right |-> right]
BinaryOpInstr(opcode, result, left, right) == IrInstr(opcode, result, left, right)
AssignInstr(target, source) == IrInstr("ASSIGN", target, source, NoOperand)
ReturnInstr(value) == IrInstr("RETURN", NoOperand, value, NoOperand)
FunctionBeginInstr == IrInstr("FUNCTION_BEGIN", NoOperand, NoOperand, NoOperand)
FunctionEndInstr == IrInstr("FUNCTION_END", NoOperand, NoOperand, NoOperand)
\* ParamInstr: param is its one operand
ParamInstr(param) == IrInstr("PARAM", NoOperand, param, NoOperand)
\* CallInstr; its constructor leaves params empty
CallInstr(result, funcName, paramCount, params) ==
    [opcode |-> "CALL", result |-> result, left |-> NoOperand, right |-> NoOperand,
     funcName |-> funcName, paramCount |-> paramCount, params |-> params]

Named(ops) == {o.name : o \in {p \in ops : p.type \in {"VARIABLE", "TEMP"}}}

\* IRAnalyzer::getDefinedVariables / IRInstr::getDefRegisters
getDefinedVariables(instr) == Named({instr.result})

\* IRAnalyzer::getUsedVariables / IRInstr::getUseRegisters
getUsedVariables(instr) ==
    Named({instr.left, instr.right}
          \cup (IF instr.opcode = "CALL"
                THEN {instr.params[i] : i \in 1..Len(instr.params)} ELSE {}))

\* The operand names of the programs below, in the order a std::map iterates
\* them.
OperandOrder == <<"t0", "v1", "v2", "v3", "v4", "v5", "v6", "v7", "v8", "v9">>

Rank(n) == CHOOSE i \in 1..Len(OperandOrder) : OperandOrder[i] = n

\* the members of the set of names S as a std::map or std::set iterates them
InOrder(S) == SelectSeq(OperandOrder, LAMBDA n : n \in S)

Max(a, b) == IF a >= b THEN a ELSE b
Min(a, b) == IF a <= b THEN a ELSE b

\* computeLiveIntervals, and the varLifetimes of buildInterferenceGraph: a
\* name starts where it is first mentioned and ends at its last use.
computeLiveIntervals(ins) ==
    LET mentions(i) == getDefinedVariables(ins[i]) \cup getUsedVariables(ins[i])
        names == UNION {mentions(i) : i \in 1..Len(ins)}
        first(v) == CHOOSE i \in 1..Len(ins) :
                        v \in mentions(i) /\ \A j \in 1..(i - 1) : v \notin mentions(j)
        uses(v) == {i \in 1..Len(ins) : v \in getUsedVariables(ins[i])}
    IN [v \in names |->
           [start |-> first(v),
            end |-> IF uses(v) = {} THEN first(v)
                    ELSE CHOOSE i \in uses(v) : \A j \in uses(v) : j <= i]]

\* CodeGenerator::registers
Register(name, isCallerSaved, isCalleeSaved, isAllocatable, isReserved) ==
    [name |-> name, isCallerSaved |-> isCallerSaved, isCalleeSaved |-> isCalleeSaved,
     isAllocatable |-> isAllocatable, isReserved |-> isReserved]

tempRegs == <<"t0", "t1", "t2", "t3", "t4", "t5", "t6">>

argRegs == <<"a0", "a1", "a2", "a3", "a4", "a5", "a6", "a7">>

registers ==
    <<Register("zero", FALSE, FALSE, FALSE, TRUE)>>
    \o [i \in 1..Len(tempRegs) |-> Register(tempRegs[i], TRUE, FALSE, TRUE, FALSE)]
    \o [i \in 1..Len(SRegSeq) |-> Register(SRegSeq[i], FALSE, TRUE, TRUE, FALSE)]
    \o [i \in 1..Len(argRegs) |-> Register(argRegs[i], TRUE, FALSE, TRUE, FALSE)]
    \o <<Register("ra", TRUE, FALSE, FALSE, TRUE),
         Register("sp", FALSE, FALSE, FALSE, TRUE),
         Register("gp", FALSE, FALSE, FALSE, TRUE),
         Register("tp", FALSE, FALSE, FALSE, TRUE),
         Register("fp", FALSE, TRUE, FALSE, TRUE)>>

isValidRegister(reg) == \E i \in 1..Len(registers) : registers[i].name = reg

\* the registers handed to an allocator
allocatableRegs == SelectSeq(registers, LAMBDA r : r.isAllocatable /\ ~r.isReserved)

\* std::sort of the intervals by start (equal starts: in map order)
RECURSIVE SortByStart(_, _)
SortByStart(names, iv) ==
    IF names = {} THEN <<>>
    ELSE LET v == CHOOSE n \in names :
                      \A m \in names : \/ iv[n].start < iv[m].start
                                       \/ iv[n].start = iv[m].start /\ Rank(n) <= Rank(m)
         IN <<v>> \o SortByStart(names \ {v}, iv)

\* One turn of the loop of LinearScanRegisterAllocator::allocate, for the
\* interval of var; active maps a variable to its register.
LinearScanInterval(var, iv, allocation, freeRegs, active) ==
    LET expired == InOrder({v \in DOMAIN active : iv[v].end < iv[var].start})
        free == freeRegs \o [i \in 1..Len(expired) |-> active[expired[i]]]
        live == [v \in {w \in DOMAIN active : iv[w].end >= iv[var].start} |-> active[v]]
        latest == IF DOMAIN live = {} THEN 0 - 1
                  ELSE CHOOSE e \in {iv[v].end : v \in DOMAIN live} :
                           \A v \in DOMAIN live : iv[v].end <= e
        victims == InOrder({v \in DOMAIN live : iv[v].end = latest})
    IN IF free # <<>>
       THEN [allocation |-> Put(allocation, var, free[Len(free)]),
             freeRegs |-> SubSeq(free, 1, Len(free) - 1),
             active |-> Put(live, var, free[Len(free)])]
       ELSE IF latest > iv[var].end /\ victims # <<>>
       THEN [allocation |-> Put(allocation, var, live[Head(victims)]),
             freeRegs |-> <<live[Head(victims)]>>,
             active |-> Put(Erase(live, Head(victims)), var, live[Head(victims)])]
       ELSE [allocation |-> allocation, freeRegs |-> free, active |-> live]

\* the loop of LinearScanRegisterAllocator::allocate
RECURSIVE LinearScan(_, _, _, _, _)
LinearScan(order, iv, allocation, freeRegs, active) ==
    IF order = <<>> THEN allocation
    ELSE LET r == LinearScanInterval(Head(order), iv, allocation, freeRegs, active)
         IN  LinearScan(Tail(order), iv, r.allocation, r.freeRegs, r.active)

\* the free list LinearScanRegisterAllocator::allocate starts with
InitialFreeRegs(regs) ==
    LET freeRegs == SelectSeq(regs,
                        LAMBDA r : r.isCalleeSaved /\ r.name # "fp" /\ r.name # "s0")
    IN  [i \in 1..Len(freeRegs) |-> freeRegs[i].name]

\* LinearScanRegisterAllocator::allocate
LinearScanAllocate(ins) ==
    LET iv == computeLiveIntervals(ins)
    IN LinearScan(SortByStart(DOMAIN iv, iv), iv, <<>>, InitialFreeRegs(allocatableRegs), <<>>)

\* buildInterferenceGraph with "<" where the code compares with "<=".
buildInterferenceGraph_strict(ins) ==
    LET lt == computeLiveIntervals(ins)
    IN [v \in DOMAIN lt |->
           {w \in DOMAIN lt \ {v} :
               Max(lt[v].start, lt[w].start) < Min(lt[v].end, lt[w].end)}]

\* GraphColoringRegisterAllocator::buildInterferenceGraph
buildInterferenceGraph(ins) ==
    LET lt == computeLiveIntervals(ins)
    IN [v \in DOMAIN lt |->
           {w \in DOMAIN lt \ {v} :
               Max(lt[v].start, lt[w].start) <= Min(lt[v].end, lt[w].end)}]

\* GraphColoringRegisterAllocator::simplify before the final reverse: the
\* first node of least degree is taken out, again and again
RECURSIVE Removal(_)
Removal(workGraph) ==
    IF DOMAIN workGraph = {} THEN <<>>
    ELSE LET least == CHOOSE d \in {Cardinality(workGraph[n]) : n \in DOMAIN workGraph} :
                          \A n \in DOMAIN workGraph : d <= Cardinality(workGraph[n])
             nodeToRemove == Head(InOrder({n \in DOMAIN workGraph :
                                              Cardinality(workGraph[n]) = least}))
         IN <<nodeToRemove>>
            \o Removal([n \in DOMAIN workGraph \ {nodeToRemove} |->
                           workGraph[n] \ {nodeToRemove}])

Reverse(s) == [i \in 1..Len(s) |-> s[Len(s) + 1 - i]]

simplify(graph) == Reverse(Removal(graph))

\* the register names GraphColoringRegisterAllocator::color chooses from
ColorRegNames(regs) ==
    LET usable == SelectSeq(regs, LAMBDA r : r.isAllocatable /\ ~r.isReserved)
    IN  [i \in 1..Len(usable) |-> usable[i].name]

\* GraphColoringRegisterAllocator::color
RECURSIVE color(_, _, _, _)
color(simplifiedOrder, originalGraph, regNames, allocation) ==
    IF simplifiedOrder = <<>> THEN allocation
    ELSE LET var == Head(simplifiedOrder)
             usedColors == {allocation[n] : n \in originalGraph[var] \cap DOMAIN allocation}
             candidates == SelectSeq(regNames, LAMBDA r : r \notin usedColors)
         IN color(Tail(simplifiedOrder), originalGraph, regNames,
                  IF candidates # <<>> THEN Put(allocation, var, Head(candidates))
                  ELSE allocation)

\* GraphColoringRegisterAllocator::allocate
GraphColoringAllocateWith(ins, regs) ==
    LET graph == buildInterferenceGraph(ins)
    IN IF DOMAIN graph = {} THEN <<>>
       ELSE color(simplify(graph), graph, ColorRegNames(regs), <<>>)

GraphColoringAllocate(ins) == GraphColoringAllocateWith(ins, allocatableRegs)

\* CodeGenerator::allocateRegisters, which the constructor skips under NAIVE
allocateRegisters(strategy, ins) ==
    CASE strategy = "LINEAR_SCAN" -> LinearScanAllocate(ins)
      [] strategy = "GRAPH_COLOR" -> GraphColoringAllocate(ins)
      [] OTHER -> <<>>

\* the fields of a CodeGenerator after its constructor
IrStart(strategy, ins) ==
    [out |-> <<>>, right |-> {}, irIdx |-> 1,
     regAlloc |-> allocateRegisters(strategy, ins),
     nextTempReg |-> 0, isUsed |-> {},
     usedCallerSavedRegs |-> {}, usedCalleeSavedRegs |-> {},
     labelCount |-> 0, localVars |-> <<>>, regOffsetMap |-> <<>>,
     currentStackOffset |-> 0, frameSize |-> 0, paramQueue |-> <<>>]

emitInstruction(g, lines) == [g EXCEPT !.out = @ \o lines]

allocTempReg(g) ==
    LET wrapped == g.nextTempReg >= Len(tempRegs)
        n == IF wrapped THEN 0 ELSE g.nextTempReg
        used == IF wrapped THEN {} ELSE g.isUsed
        name == tempRegs[n + 1]
    IN IF name \in used
       THEN [g |-> [g EXCEPT !.nextTempReg = n, !.isUsed = used], reg |-> ""]
       ELSE [g |-> [g EXCEPT !.nextTempReg = n + 1,
                             !.isUsed = used \cup {name},
                             !.usedCallerSavedRegs = @ \cup {name}],
             reg |-> name]

\* the stack slot of a variable or temporary, handed out on first use
getOperandOffset(g, op) ==
    IF op.name \in DOMAIN g.localVars
    THEN [g |-> g, offset |-> g.localVars[op.name]]
    ELSE [g |-> [g EXCEPT !.localVars = Put(@, op.name, g.currentStackOffset),
                          !.currentStackOffset = @ - 4],
          offset |-> g.currentStackOffset]

getRegisterStackOffset(g, reg) ==
    IF reg \in DOMAIN g.regOffsetMap
    THEN [g |-> g, offset |-> g.regOffsetMap[reg]]
    ELSE [g |-> [g EXCEPT !.regOffsetMap = Put(@, reg, g.currentStackOffset),
                          !.currentStackOffset = @ - 4],
          offset |-> g.currentStackOffset]

Abs(n) == IF n < 0 THEN 0 - n ELSE n

\* lw or sw of reg at offset(fp), through a scratch register when the offset
\* does not fit the immediate
FrameAccess(op, reg, offset) ==
    IF Abs(offset) <= 2047
    THEN <<IF op = "lw" THEN Lw(reg, offset, "fp") ELSE Sw(reg, offset, "fp")>>
    ELSE LET tempReg == IF reg # "t0" THEN "t0" ELSE "t1"
         IN <<Li(tempReg, offset), Alu("add", tempReg, "fp", tempReg),
              IF op = "lw" THEN Lw(reg, 0, tempReg) ELSE Sw(reg, 0, tempReg)>>

InRegister(g, op) == op.name \in DOMAIN g.regAlloc /\ isValidRegister(g.regAlloc[op.name])

loadOperand(g, op, reg) ==
    IF op.type = "CONSTANT" THEN emitInstruction(g, <<Li(reg, op.value)>>)
    ELSE IF op.type \notin {"VARIABLE", "TEMP"} THEN g
    ELSE IF InRegister(g, op) THEN emitInstruction(g, <<Addi(reg, g.regAlloc[op.name], 0)>>)
    ELSE LET o == getOperandOffset(g, op)
         IN emitInstruction(o.g, FrameAccess("lw", reg, o.offset))

storeRegister(g, reg, op) ==
    IF op.type \notin {"VARIABLE", "TEMP"} THEN g
    ELSE IF InRegister(g, op)
    THEN (IF reg # g.regAlloc[op.name]
          THEN emitInstruction(g, <<Addi(g.regAlloc[op.name], reg, 0)>>) ELSE g)
    ELSE LET o == getOperandOffset(g, op)
         IN emitInstruction(o.g, FrameAccess("sw", reg, o.offset))

\* the arithmetic and comparison cases of processBinaryOp
IrBinaryLines(opcode, resultReg, leftReg, rightReg) ==
    CASE opcode = "ADD" -> <<Alu("add", resultReg, leftReg, rightReg)>>
      [] opcode = "SUB" -> <<Alu("sub", resultReg, leftReg, rightReg)>>
      [] opcode = "MUL" -> <<Alu("mul", resultReg, leftReg, rightReg)>>
      [] opcode = "DIV" -> <<Alu("div", resultReg, leftReg, rightReg)>>
      [] opcode = "MOD" -> <<Alu("rem", resultReg, leftReg, rightReg)>>
      [] opcode = "LT" -> <<Alu("slt", resultReg, leftReg, rightReg)>>
      [] opcode = "GT" -> <<Alu("slt", resultReg, rightReg, leftReg)>>
      [] opcode = "LE" -> <<Alu("slt", resultReg, rightReg, leftReg), Xori(resultReg, resultReg, 1)>>
      [] opcode = "GE" -> <<Alu("slt", resultReg, leftReg, rightReg), Xori(resultReg, resultReg, 1)>>
      [] opcode = "EQ" -> <<Alu("xor", resultReg, leftReg, rightReg), Alu1("seqz", resultReg, resultReg)>>
      [] opcode = "NE" -> <<Alu("xor", resultReg, leftReg, rightReg), Alu1("snez", resultReg, resultReg)>>

\* g.right records the lines that load the right operand of an AND or OR
processBinaryOp(g, instr) ==
    LET result == allocTempReg(g)
        left == allocTempReg(result.g)
    IN IF instr.opcode \in {"AND", "OR"}
       THEN LET isAnd == instr.opcode = "AND"
                loaded == loadOperand(left.g, instr.left, left.reg)
                endLabel == <<"L", loaded.labelCount>>
                shortCircuitLabel == <<"L", loaded.labelCount + 1>>
                branched == emitInstruction([loaded EXCEPT !.labelCount = @ + 2],
                                <<Branch(IF isAnd THEN "beqz" ELSE "bnez",
                                         left.reg, shortCircuitLabel)>>)
                right == allocTempReg(branched)
                rloaded == loadOperand(right.g, instr.right, right.reg)
                joined == emitInstruction(rloaded,
                              <<Alu1("snez", result.reg, right.reg),
                                Jump(endLabel),
                                Label(shortCircuitLabel),
                                Li(result.reg, IF isAnd THEN 0 ELSE 1),
                                Label(endLabel)>>)
            IN storeRegister([joined EXCEPT !.right =
                                  (Len(branched.out) + 1)..Len(rloaded.out)],
                             result.reg, instr.result)
       ELSE LET right == allocTempReg(left.g)
                loaded == loadOperand(loadOperand(right.g, instr.left, left.reg),
                                      instr.right, right.reg)
            IN storeRegister(
                   emitInstruction(loaded,
                       IrBinaryLines(instr.opcode, result.reg, left.reg, right.reg)),
                   result.reg, instr.result)

processAssign(g, instr) ==
    LET a == allocTempReg(g)
    IN storeRegister(loadOperand(a.g, instr.left, a.reg), a.reg, instr.result)

EpilogueLabel == <<"main_epilogue", 0>>

\* processReturn of a ReturnInstr that has a value
processReturn(g, instr) ==
    emitInstruction(loadOperand(g, instr.left, "a0"), <<Jump(EpilogueLabel)>>)

\* the members of a std::set of callee-saved register names, in its order
CalleeSetOrder ==
    <<"fp", "s0", "s1", "s10", "s11", "s2", "s3", "s4", "s5", "s6", "s7", "s8", "s9">>

\* saveCalleeSavedRegs (op = "sw") and restoreCalleeSavedRegs (op = "lw")
RECURSIVE CalleeSavedRegs(_, _, _)
CalleeSavedRegs(g, regs, op) ==
    IF regs = <<>> THEN g
    ELSE LET o == getRegisterStackOffset(g, Head(regs))
         IN CalleeSavedRegs(emitInstruction(o.g, FrameAccess(op, Head(regs), o.offset)),
                            Tail(regs), op)

saveCalleeSavedRegs(g) ==
    CalleeSavedRegs(g, SelectSeq(CalleeSetOrder, LAMBDA r : r \in g.usedCalleeSavedRegs), "sw")

restoreCalleeSavedRegs(g) ==
    CalleeSavedRegs(g, SelectSeq(CalleeSetOrder, LAMBDA r : r \in g.usedCalleeSavedRegs), "lw")

\* analyzeUsedCalleeSavedRegs: the callee-saved registers marked isUsed
analyzeUsedCalleeSavedRegs(g) ==
    [g EXCEPT !.usedCalleeSavedRegs =
        {registers[i].name : i \in {j \in 1..Len(registers) :
             registers[j].isCalleeSaved /\ registers[j].name \in g.isUsed}}]

\* countUsedCalleeSavedRegs / countUsedCallerSavedRegs: for every instruction,
\* the register names of regs that its text contains (for the operand names of
\* OperandOrder: that one of its operands is called)
CountUsedRegs(ins, regs) ==
    Cardinality({p \in (1..Len(ins)) \X regs :
        p[2] \in getDefinedVariables(ins[p[1]]) \cup getUsedVariables(ins[p[1]])})

\* reg[0] == 't', on the operand names of OperandOrder
isTempReg(reg) == reg = "t0"

\* analyzeTempVars: after instruction i the active temporaries are those an
\* instruction up to i uses, unallocated, that no later instruction up to i
\* defines; the result is 4 bytes for each at the point where they are most.
analyzeTempVars(ins, regAlloc) ==
    LET defs(i) == {r \in getDefinedVariables(ins[i]) : isTempReg(r)}
        uses(i) == {r \in getUsedVariables(ins[i]) :
                       isTempReg(r) /\ r \notin DOMAIN regAlloc}
        temps == UNION {uses(i) : i \in 1..Len(ins)}
        activeTemps(i) == {r \in temps :
                              \E j \in 1..i : /\ r \in uses(j)
                                              /\ \A k \in (j + 1)..i : r \notin defs(k)}
        sizes == {4 * Cardinality(activeTemps(i)) : i \in 1..Len(ins)} \cup {0}
    IN  CHOOSE maxTempSize \in sizes : \A x \in sizes : x <= maxTempSize

\* sw / lw of reg at offset(sp), as emitPrologue and emitEpilogue write them
SpAccess(op, reg, offset) ==
    IF offset <= 2047
    THEN <<IF op = "lw" THEN Lw(reg, offset, "sp") ELSE Sw(reg, offset, "sp")>>
    ELSE <<Li("t0", offset), Alu("add", "t0", "sp", "t0"),
           IF op = "lw" THEN Lw(reg, 0, "t0") ELSE Sw(reg, 0, "t0")>>

emitPrologue(g, ins) ==
    LET calleeRegsSize == 4 * CountUsedRegs(ins, SRegs)
        callerRegsSize == 4 * CountUsedRegs(ins, TRegs \cup ARegs \cup {"ra"})
        localsAndPadding == analyzeTempVars(ins, g.regAlloc)
        totalFrameSize ==
            ((calleeRegsSize + callerRegsSize + localsAndPadding + 8 + 15) \div 16) * 16
        lines ==
            (IF totalFrameSize <= 2048
             THEN <<Addi("sp", "sp", 0 - totalFrameSize)>>
             ELSE <<Li("t0", 0 - totalFrameSize), Alu("add", "sp", "sp", "t0")>>)
            \o SpAccess("sw", "ra", totalFrameSize - 4)
            \o SpAccess("sw", "fp", totalFrameSize - 8)
            \o (IF totalFrameSize <= 2048
                THEN <<Addi("fp", "sp", totalFrameSize)>>
                ELSE <<Li("t0", totalFrameSize), Alu("add", "fp", "sp", "t0")>>)
    IN saveCalleeSavedRegs(
           emitInstruction([g EXCEPT !.regOffsetMap = <<>>,
                                     !.currentStackOffset = 0 - 12,
                                     !.frameSize = totalFrameSize], lines))

emitEpilogue(g) ==
    emitInstruction(restoreCalleeSavedRegs(g),
        SpAccess("lw", "fp", g.frameSize - 8)
        \o SpAccess("lw", "ra", g.frameSize - 4)
        \o (IF g.frameSize <= 2048
            THEN <<Addi("sp", "sp", g.frameSize)>>
            ELSE <<Li("t0", g.frameSize), Alu("add", "sp", "sp", "t0")>>)
        \o <<Ret>>)

\* processFunctionBegin of a function without parameters
processFunctionBegin(g, ins) ==
    emitPrologue(
        emitInstruction(analyzeUsedCalleeSavedRegs([g EXCEPT !.frameSize = 8,
                                                             !.localVars = <<>>]),
                        <<Label(<<"main", 0>>)>>),
        ins)

processFunctionEnd(g) ==
    [emitEpilogue(emitInstruction(g, <<Label(EpilogueLabel)>>))
        EXCEPT !.regAlloc = <<>>, !.localVars = <<>>]

processParam(g, instr) == [g EXCEPT !.paramQueue = Append(@, instr.left)]

\* analyzeUsedCallerSavedRegs: the caller-saved registers marked isUsed
analyzeUsedCallerSavedRegs(g) ==
    [g EXCEPT !.usedCallerSavedRegs =
        {registers[i].name : i \in {j \in 1..Len(registers) :
             registers[j].isCallerSaved /\ registers[j].name \in g.isUsed}}]

\* the members of a std::set of caller-saved register names, in its order
CallerSetOrder ==
    <<"a0", "a1", "a2", "a3", "a4", "a5", "a6", "a7", "ra",
      "t0", "t1", "t2", "t3", "t4", "t5", "t6">>

\* saveCallerSavedRegs (op = "sw") and restoreCallerSavedRegs (op = "lw")
RECURSIVE CallerSavedRegs(_, _, _)
CallerSavedRegs(g, regs, op) ==
    IF regs = <<>> THEN g
    ELSE LET o == getRegisterStackOffset(g, Head(regs))
             reg == Head(regs)
             lines == IF Abs(o.offset) <= 2047
                      THEN <<IF op = "lw" THEN Lw(reg, o.offset, "fp")
                             ELSE Sw(reg, o.offset, "fp")>>
                      ELSE <<Li("t0", o.offset), Alu("add", "t0", "fp", "t0"),
                             IF op = "lw" THEN Lw(reg, 0, "t0") ELSE Sw(reg, 0, "t0")>>
         IN CallerSavedRegs(emitInstruction(o.g, lines), Tail(regs), op)

CallLine(funcName) == Ins("call", "", "", "", 0, <<funcName, 0>>)

\* the two loops of processCall that place the arguments: the first eight in
\* a0..a7, the others through a scratch register at 0(sp), 4(sp), ...
RECURSIVE PlaceArguments(_, _, _, _)
PlaceArguments(g, params, i, paramCount) ==
    IF i >= paramCount THEN g
    ELSE IF i < 8
    THEN PlaceArguments(loadOperand(g, params[i + 1], argRegs[i + 1]),
                        params, i + 1, paramCount)
    ELSE LET t == allocTempReg(g)
         IN PlaceArguments(
                emitInstruction(loadOperand(t.g, params[i + 1], t.reg),
                                <<Sw(t.reg, (i - 8) * 4, "sp")>>),
                params, i + 1, paramCount)

\* processCall.  The IR never carries a call whose own params are fewer than
\* paramCount or more than the queued Params.
processCall(g, instr) ==
    LET paramCount == instr.paramCount
        own == instr.params # <<>>
        queued == Len(g.paramQueue)
    IN IF ~own /\ (queued = 0 \/ queued < paramCount) THEN g
       ELSE LET params == IF own THEN instr.params
                          ELSE SubSeq(g.paramQueue, queued - paramCount + 1, queued)
                analyzed == analyzeUsedCalleeSavedRegs(analyzeUsedCallerSavedRegs(g))
                usedRegs == SelectSeq(CallerSetOrder,
                                      LAMBDA r : r \in analyzed.usedCallerSavedRegs)
                saved == CallerSavedRegs(analyzed, usedRegs, "sw")
                placed == PlaceArguments(saved, params, 0, paramCount)
                called == emitInstruction(placed, <<CallLine(instr.funcName)>>)
                restored == CallerSavedRegs(called, usedRegs, "lw")
                resultReg == allocTempReg(restored)
                stored == IF instr.result.type = "NONE" THEN restored
                          ELSE storeRegister(
                                   emitInstruction(resultReg.g,
                                                   <<Addi(resultReg.reg, "a0", 0)>>),
                                   resultReg.reg, instr.result)
            IN IF own /\ paramCount > 0
               THEN [stored EXCEPT !.paramQueue = SubSeq(@, 1, Len(@) - paramCount)]
               ELSE stored

processInstruction(g, instr, ins) ==
    CASE instr.opcode = "FUNCTION_BEGIN" -> processFunctionBegin(g, ins)
      [] instr.opcode = "FUNCTION_END" -> processFunctionEnd(g)
      [] instr.opcode = "ASSIGN" -> processAssign(g, instr)
      [] instr.opcode = "RETURN" -> processReturn(g, instr)
      [] instr.opcode = "PARAM" -> processParam(g, instr)
      [] instr.opcode = "CALL" -> processCall(g, instr)
      [] OTHER -> processBinaryOp(g, instr)

(***************************************************************************)
(* Generating and running `int main(){ return E; }`.                       *)
(***************************************************************************)
OperandValues == {0, 1, 5}

AstLeaves == {Num(v) : v \in OperandValues}

AstInner ==
    AstLeaves
    \cup {Bin(op, l, r) : op \in {"AND", "OR", "ADD"}, l \in AstLeaves, r \in AstLeaves}
    \cup {Un("NOT", e) : e \in AstLeaves}

\* E for the AST code generator: a logical operator over operands that are
\* literals, or operators over literals
AstPrograms == {Bin(op, l, r) : op \in {"AND", "OR"}, l \in AstInner, r \in AstInner}

\* E for the IR code generator: one operator over two literals
IrOpcodes == {"AND", "OR", "ADD", "EQ", "LE"}

IrExprs == {Bin(op, Num(a), Num(b)) : op \in IrOpcodes, a \in OperandValues, b \in OperandValues}

\* how many variables the IR of the function holds
IrSizes == {2, 3, 9}

Strategies == {"NAIVE", "LINEAR_SCAN", "GRAPH_COLOR"}

\* The IR of  int v1 = a; int v2 = b; int v3 = 1; ... int vn = 1;
\*            return (v1 op v2) + v3 + ... + vn;
IrProgram(n, e) ==
    <<FunctionBeginInstr,
      AssignInstr(Variable("v1"), Constant(e.l.v)),
      AssignInstr(Variable("v2"), Constant(e.r.v))>>
    \o [i \in 1..(n - 2) |-> AssignInstr(Variable(OperandOrder[i + 3]), Constant(1))]
    \o <<BinaryOpInstr(e.op, Temp("t0"), Variable("v1"), Variable("v2"))>>
    \o [i \in 1..(n - 2) |->
           BinaryOpInstr("ADD", Temp("t0"), Temp("t0"), Variable(OperandOrder[i + 3]))]
    \o <<ReturnInstr(Temp("t0")), FunctionEndInstr>>

\* the number of variables of IrProgram(n, e), from its length 2n + 2
IrSize(ins) == (Len(ins) - 2) \div 2

\* CodeGenerator::generate of src/src/code_generator.cpp
GenerateAst ==
    /\ generator = "ast"
    /\ asmStage = "parsed"
    /\ cg' = VisitFuncDef(asmExpr, cg)
    /\ asmStage' = "running"
    /\ UNCHANGED <<generator, asmExpr, instructions, regAllocStrategy, cpu>>
    /\ UNCHANGED <<semVars, optVars, progVars, peepVars, parseVars, allocVars, avVars, unitVars, symVars>>

\* one turn of the loop of CodeGenerator::generate of part_011
ProcessInstruction ==
    /\ generator = "ir"
    /\ asmStage = "generating"
    /\ cg' = [processInstruction(cg, instructions[cg.irIdx], instructions)
                 EXCEPT !.irIdx = @ + 1]
    /\ asmStage' = IF cg.irIdx = Len(instructions) THEN "running" ELSE "generating"
    /\ UNCHANGED <<generator, asmExpr, instructions, regAllocStrategy, cpu>>
    /\ UNCHANGED <<semVars, optVars, progVars, peepVars, parseVars, allocVars, avVars, unitVars, symVars>>

\* the hart executes the line at pc
Execute ==
    /\ asmStage = "running"
    /\ \E g \in Garbage : cpu' = Step(cpu, cg.out, cg.right, g)
    /\ asmStage' = cpu'.status
    /\ UNCHANGED <<generator, asmExpr, instructions, regAllocStrategy, cg>>
    /\ UNCHANGED <<semVars, optVars, progVars, peepVars, parseVars, allocVars, avVars, unitVars, symVars>>

AsmInit ==
    /\ SymIdle
    /\ UnitIdle
    /\ AvIdle
    /\ PeepIdle
    /\ ParseIdle
    /\ AllocIdle
    /\ semImpl = "none"
    /\ semUnit = <<>>
    /\ semIdx = 0
    /\ loopDepth = 0
    /\ inLoopStack = <<>>
    /\ semErrors = {}
    /\ semSuccess = TRUE
    /\ optVariant = "none"
    /\ optExpr = [k |-> "None"]
    /\ optEnv = <<>>
    /\ constant_values = <<>>
    /\ is_variable_constant = {}
    /\ optResult = [k |-> "None"]
    /\ progSrc = [k |-> "None"]
    /\ progArg = 0
    /\ enable_optimization = FALSE
    /\ progStage = "none"
    /\ progAst = [k |-> "None"]
    /\ progErrors = {}
    /\ generator \in {"ast", "ir"}
    /\ asmExpr \in IF generator = "ast" THEN AstPrograms ELSE IrExprs
    /\ regAllocStrategy \in IF generator = "ast" THEN {"none"} ELSE Strategies
    /\ instructions \in IF generator = "ast" THEN {<<>>}
                        ELSE {IrProgram(n, asmExpr) : n \in IrSizes}
    /\ cg = IF generator = "ast" THEN AstStart ELSE IrStart(regAllocStrategy, instructions)
    /\ cpu = EntryCpu
    /\ asmStage = IF generator = "ast" THEN "parsed" ELSE "generating"

AsmNext == GenerateAst \/ ProcessInstruction \/ Execute

SpecAsm == AsmInit /\ [][AsmNext]_vars

\* what `return E` returns in the language; the IR adds v3 .. vn, each 1
ReturnValue ==
    IF generator = "ir"
    THEN Add32(Eval(asmExpr, <<>>), IrSize(instructions) - 2)
    ELSE Eval(asmExpr, <<>>)

\* the right operand of E is to be evaluated
RightNeeded ==
    IF asmExpr.op = "AND" THEN Eval(asmExpr.l, <<>>) # 0 ELSE Eval(asmExpr.l, <<>>) = 0

(* C4: the code generated for A && B yields 0 when A is zero and otherwise  *)
(* 1 or 0 as B is non-zero or zero (dually 1 or B != 0 for A || B), so the  *)
(* result is always 0 or 1, and the code of B runs exactly when A is        *)
(* non-zero for && and exactly when A is zero for ||.                       *)
C4_ShortCircuitNormalised ==
    (asmStage = "returned" /\ asmExpr.op \in {"AND", "OR"}) =>
        /\ cpu.x["a0"] = ReturnValue
        /\ cpu.ranRight <=> RightNeeded

CalleeSaved(r) == r \in SRegs \cup {"fp"}

\* the callee-saved registers the emitted lines compute into
Written(code) ==
    {Canon(code[i].rd) : i \in {j \in 1..Len(code) :
        WritesRd(code[j]) /\ code[j].op # "lw" /\ CalleeSaved(code[j].rd)}}

\* the callee-saved registers the emitted lines store to the frame and load back
SavedAndRestored(code) ==
    {Canon(code[i].rs2) : i \in {j \in 1..Len(code) :
        code[j].op = "sw" /\ CalleeSaved(code[j].rs2)}}
    \cap {Canon(code[i].rd) : i \in {j \in 1..Len(code) :
        code[j].op = "lw" /\ CalleeSaved(code[j].rd)}}

(* C10: in every function the IR code generator emits, under each of the    *)
(* three allocation strategies, every callee-saved register the body writes *)
(* (the s-registers given to variables among them) is saved in the prologue *)
(* and restored in the epilogue, and at ret sp, fp, ra and the callee-saved *)
(* registers hold the values they had on entry.                             *)
C10_CalleeSavedPreserved ==
    (generator = "ir" /\ asmStage = "returned") =>
        /\ Written(cg.out) \subseteq SavedAndRestored(cg.out)
        /\ \A r \in {"sp", "ra"} \cup SRegs : cpu.x[r] = EntryRegs[r]

(***************************************************************************)
(* Semantic analysis of calls and divisions.  A function is its name, its  *)
(* number of parameters and the expression its body returns; every         *)
(* variable an expression reads is a declared parameter, and every         *)
(* function returns int.                                                   *)
(***************************************************************************)
FunctionDef(name, params, body) == [name |-> name, params |-> params, body |-> body]

CallExpr(callee, arguments) == [k |-> "Call", f |-> callee, args |-> arguments]

AvError(kind, fn, expr) == [kind |-> kind, fn |-> fn, expr |-> expr]

\* Every sub-expression of e, call arguments included.
RECURSIVE AllSubExprs(_)
AllSubExprs(e) ==
    CASE e.k = "Bin" -> {e} \cup AllSubExprs(e.l) \cup AllSubExprs(e.r)
      [] e.k = "Un" -> {e} \cup AllSubExprs(e.e)
      [] e.k = "Call" ->
            {e} \cup UNION {AllSubExprs(e.args[i]) : i \in 1..Len(e.args)}
      [] OTHER -> {e}

\* analyzeHelper::evaluateConstant: [has |-> FALSE] is the empty OptionalInt.
NoInt == [has |-> FALSE, v |-> 0]

SomeInt(v) == [has |-> TRUE, v |-> v]

RECURSIVE evaluateConstant(_)
evaluateConstant(e) ==
    CASE e.k = "Num" -> SomeInt(e.v)
      [] e.k = "Un" ->
            LET operandValue == evaluateConstant(e.e)
            IN  IF ~operandValue.has THEN NoInt
                ELSE SomeInt(HostUnary(e.op, operandValue.v))
      [] e.k = "Bin" ->
            LET leftValue == evaluateConstant(e.l)
                rightValue == evaluateConstant(e.r)
            IN  IF ~leftValue.has \/ ~rightValue.has THEN NoInt
                ELSE IF e.op \in {"DIV", "MOD"} /\ rightValue.v = 0 THEN NoInt
                ELSE SomeInt(HostBinary(e.op, leftValue.v, rightValue.v))
      [] OTHER -> NoInt

\* analyzeVisitor::visit on an expression of function fn: the errors it
\* reports, with the function table and currentFunction of that moment.
RECURSIVE AvExprErrors(_, _, _, _)
AvExprErrors(e, fn, table, current) ==
    CASE e.k = "Bin" ->
            LET rval == evaluateConstant(e.r)
            IN  AvExprErrors(e.l, fn, table, current)
                \cup AvExprErrors(e.r, fn, table, current)
                \cup (IF e.op \in {"DIV", "MOD"} /\ rval.has /\ rval.v = 0
                      THEN {AvError("division_by_zero", fn, e)} ELSE {})
      [] e.k = "Un" -> AvExprErrors(e.e, fn, table, current)
      [] e.k = "Call" ->
            IF e.f \notin DOMAIN table /\ e.f # current
            THEN {AvError("undefined_function", fn, e)}
            ELSE (IF table[e.f] # Len(e.args)
                  THEN {AvError("argument_count", fn, e)} ELSE {})
                 \cup UNION {AvExprErrors(e.args[i], fn, table, current) :
                                 i \in 1..Len(e.args)}
      [] OTHER -> {}

\* TOYC2 SemanticAnalyzer::visit on an expression of function fn.
RECURSIVE T2ExprErrors(_, _, _)
T2ExprErrors(e, fn, table) ==
    CASE e.k = "Bin" ->
            T2ExprErrors(e.l, fn, table)
            \cup T2ExprErrors(e.r, fn, table)
            \cup (IF e.op \in {"DIV", "MOD"} /\ e.r.k = "Num" /\ e.r.v = 0
                  THEN {AvError("division_by_zero", fn, e)} ELSE {})
      [] e.k = "Un" -> T2ExprErrors(e.e, fn, table)
      [] e.k = "Call" ->
            IF e.f \notin DOMAIN table
            THEN {AvError("undefined_function", fn, e)}
            ELSE IF table[e.f] # Len(e.args)
            THEN {AvError("argument_count", fn, e)}
            ELSE UNION {T2ExprErrors(e.args[i], fn, table) : i \in 1..Len(e.args)}
      [] OTHER -> {}

HasMain(unit) == \E i \in 1..Len(unit) : unit[i].name = "main"

\* analyzeVisitor::visit(CompUnit), up to the loop over the functions.
VisitCompUnit ==
    /\ analyzer = "analyzeVisitor"
    /\ avStage = "start"
    /\ avErrors' = IF HasMain(compUnit) THEN avErrors
                   ELSE avErrors \cup {AvError("no_main", 0, NoExpr)}
    /\ avStage' = IF compUnit = <<>> THEN "done" ELSE "functions"
    /\ UNCHANGED <<analyzer, compUnit, avVisited, functionTable>>
    /\ UNCHANGED <<semVars, optVars, progVars, asmVars, peepVars, parseVars, allocVars, unitVars, symVars>>

\* analyzeVisitor::visit(FunctionDef) on the next function of the unit: the
\* function enters the table just before its own body is analysed.
VisitFunctionDef ==
    /\ analyzer = "analyzeVisitor"
    /\ avStage = "functions"
    /\ avVisited < Len(compUnit)
    /\ LET n == avVisited + 1
           funcDef == compUnit[n]
           duplicate == IF funcDef.name \in DOMAIN functionTable
                        THEN {AvError("duplicate_function", n, NoExpr)} ELSE {}
           table == Put(functionTable, funcDef.name, funcDef.params)
       IN  /\ functionTable' = table
           /\ avErrors' = avErrors \cup duplicate
                              \cup AvExprErrors(funcDef.body, n, table, funcDef.name)
           /\ avVisited' = n
           /\ avStage' = IF n = Len(compUnit) THEN "done" ELSE "functions"
    /\ UNCHANGED <<analyzer, compUnit>>
    /\ UNCHANGED <<semVars, optVars, progVars, asmVars, peepVars, parseVars, allocVars, unitVars, symVars>>

\* SymbolTable::define_function over functions i.. of the unit: the first
\* definition of a name stays, a later one is reported.
RECURSIVE DefineFunctions(_, _, _)
DefineFunctions(unit, i, st) ==
    IF i > Len(unit) THEN st
    ELSE IF unit[i].name \in DOMAIN st.table
    THEN DefineFunctions(unit, i + 1,
             [st EXCEPT !.errs = @ \cup {AvError("duplicate_function", i, NoExpr)}])
    ELSE DefineFunctions(unit, i + 1,
             [st EXCEPT !.table = Put(@, unit[i].name, unit[i].params)])

\* TOYC2 SemanticAnalyzer::visit(CompUnit), first pass.
CollectFunctions ==
    /\ analyzer = "TOYC2"
    /\ avStage = "start"
    /\ LET r == DefineFunctions(compUnit, 1, [table |-> functionTable, errs |-> {}])
       IN  /\ functionTable' = r.table
           /\ avErrors' = avErrors \cup r.errs
    /\ avStage' = IF compUnit = <<>> THEN "visited" ELSE "functions"
    /\ UNCHANGED <<analyzer, compUnit, avVisited>>
    /\ UNCHANGED <<semVars, optVars, progVars, asmVars, peepVars, parseVars, allocVars, unitVars, symVars>>

\* TOYC2 SemanticAnalyzer::visit(FuncDef) on the next function (second pass).
T2VisitFuncDef ==
    /\ analyzer = "TOYC2"
    /\ avStage = "functions"
    /\ avVisited < Len(compUnit)
    /\ LET n == avVisited + 1
       IN  /\ avErrors' = avErrors \cup T2ExprErrors(compUnit[n].body, n, functionTable)
           /\ avVisited' = n
           /\ avStage' = IF n = Len(compUnit) THEN "visited" ELSE "functions"
    /\ UNCHANGED <<analyzer, compUnit, functionTable>>
    /\ UNCHANGED <<semVars, optVars, progVars, asmVars, peepVars, parseVars, allocVars, unitVars, symVars>>

\* TOYC2 SemanticAnalyzer::analyze after the visit: the check for main.
CheckMain ==
    /\ analyzer = "TOYC2"
    /\ avStage = "visited"
    /\ avErrors' = IF "main" \notin DOMAIN functionTable
                   THEN avErrors \cup {AvError("no_main", 0, NoExpr)}
                   ELSE IF functionTable["main"] # 0
                   THEN avErrors \cup {AvError("invalid_main", 0, NoExpr)}
                   ELSE avErrors
    /\ avStage' = "done"
    /\ UNCHANGED <<analyzer, compUnit, avVisited, functionTable>>
    /\ UNCHANGED <<semVars, optVars, progVars, asmVars, peepVars, parseVars, allocVars, unitVars, symVars>>

\* The units analysed: f and g take one parameter x, main takes none; h is
\* defined nowhere.
CallArguments == {<<>>, <<Num(1)>>}

CallExprs == {CallExpr(c, a) : c \in {"f", "g", "h"}, a \in CallArguments}

Divisors ==
    {Num(0), Num(1), Var("x"),
     Bin("SUB", Num(1), Num(1)), Bin("MUL", Num(2), Num(0)),
     Bin("ADD", Num(1), Num(1)), Bin("DIV", Num(1), Num(2)),
     Bin("DIV", Num(1), Num(0)), Bin("SUB", Var("x"), Var("x")),
     Un("NOT", Num(1)), Un("MINUS", Num(0)), Un("NOT", Num(0)),
     Bin("AND", Num(0), Bin("DIV", Num(1), Num(0)))}

Divisions == {Bin(op, Var("x"), d) : op \in {"DIV", "MOD"}, d \in Divisors}

HelperBodies ==
    {Var("x"), CallExpr("f", <<Num(1)>>), CallExpr("g", <<Var("x")>>),
     Bin("DIV", Var("x"), Bin("SUB", Num(1), Num(1))),
     CallExpr("f", <<Bin("MOD", Num(1), Num(0))>>)}

MainBodies == {Num(0), CallExpr("f", <<Num(1)>>), Bin("DIV", Num(1), Num(0))}

AnalysisUnits ==
    {<<FunctionDef("f", 1, b1), FunctionDef("g", 1, b2), FunctionDef("main", 0, b3)>> :
         b1 \in CallExprs \cup Divisions, b2 \in HelperBodies, b3 \in MainBodies}
    \cup {<<FunctionDef("main", 0, b3), FunctionDef("f", 1, b1)>> :
              b3 \in MainBodies, b1 \in CallExprs \cup Divisions}
    \cup {<<FunctionDef("f", 1, b1)>> : b1 \in HelperBodies}

AnalysisInit ==
    /\ SymIdle
    /\ UnitIdle
    /\ SemIdle
    /\ OptIdle
    /\ ProgIdle
    /\ AsmIdle
    /\ PeepIdle
    /\ ParseIdle
    /\ AllocIdle
    /\ analyzer \in {"analyzeVisitor", "TOYC2"}
    /\ compUnit \in AnalysisUnits
    /\ avStage = "start"
    /\ avVisited = 0
    /\ functionTable = <<>>
    /\ avErrors = {}

AnalysisNext ==
    \/ VisitCompUnit
    \/ VisitFunctionDef
    \/ CollectFunctions
    \/ T2VisitFuncDef
    \/ CheckMain

SpecAnalysis == AnalysisInit /\ [][AnalysisNext]_vars

\* The calls of function n of the unit, and a definition that fits a call.
CallsIn(n) == {c \in AllSubExprs(compUnit[n].body) : c.k = "Call"}

Defines(m, c) == compUnit[m].name = c.f /\ compUnit[m].params = Len(c.args)

\* C11: when analyzeVisitor has analysed the unit, no call that passes the
\* right number of arguments to a function defined anywhere in the unit,
\* before or after the caller, has been reported as an undefined function.
C11_ForwardCallAccepted ==
    (analyzer = "analyzeVisitor" /\ avStage = "done") =>
        \A n \in 1..Len(compUnit) : \A c \in CallsIn(n) :
            (\E m \in 1..Len(compUnit) : Defines(m, c)) =>
                AvError("undefined_function", n, c) \notin avErrors

\* A call to a function defined later in the unit has been analysed.
C11_Witness ==
    /\ analyzer = "analyzeVisitor"
    /\ avStage = "done"
    /\ \E n \in 1..Len(compUnit) : \E c \in CallsIn(n) :
          \E m \in (n + 1)..Len(compUnit) : Defines(m, c)

\* The divisions of function n, and what the language makes of a divisor.
DivisionsIn(n) ==
    {d \in AllSubExprs(compUnit[n].body) : d.k = "Bin" /\ d.op \in {"DIV", "MOD"}}

ConstantExpr(e) == \A s \in AllSubExprs(e) : s.k \in {"Num", "Un", "Bin"}

ZeroConstant(e) == ConstantExpr(e) /\ ~DividesByZero(e, <<>>) /\ Eval(e, <<>>) = 0

NonZeroConstant(e) == ConstantExpr(e) /\ ~DividesByZero(e, <<>>) /\ Eval(e, <<>>) # 0

\* C13: when either analyzer has analysed the unit, every division or modulo
\* whose right operand is a constant expression evaluating to 0 has a
\* division-by-zero error (so the analysis fails), and none whose right
\* operand is a non-zero constant or is not constant has one.
C13_ConstantZeroDivisorRejected ==
    avStage = "done" =>
        \A n \in 1..Len(compUnit) : \A d \in DivisionsIn(n) :
            /\ ZeroConstant(d.r) => AvError("division_by_zero", n, d) \in avErrors
            /\ (NonZeroConstant(d.r) \/ ~ConstantExpr(d.r)) =>
                   AvError("division_by_zero", n, d) \notin avErrors

C13_Witness ==
    /\ avStage = "done"
    /\ \E n \in 1..Len(compUnit) : \E d \in DivisionsIn(n) :
          d.r.k = "Bin" /\ ZeroConstant(d.r)

(***************************************************************************)
(* What the driver of src/src/main.cpp shows of a run of SpecProg: main    *)
(* returns 1 right after a failed analysis, writes the assembly and        *)
(* returns 0 after code generation, and returns nothing when the optimizer *)
(* brings the process down.                                                *)
(***************************************************************************)
Killed == 139

ExitCode ==
    CASE progStage = "rejected" -> 1
      [] progStage = "compiled" -> 0
      [] progStage = "crashed" -> Killed
      [] OTHER -> 0 - 1

AssemblyOnStdout == progStage = "compiled"

LaterStageRan == progAst # progSrc \/ progStage \in {"optimized", "compiled", "crashed"}

\* C12: when the run of the driver is over, a program with a semantic error
\* has gone through no later stage, has no assembly on standard output and
\* exit code 1, and a program without one has reached code generation and
\* exit code 0.
C12_ErrorsStopCompilation ==
    Finished =>
        IF progErrors # {}
        THEN ExitCode = 1 /\ ~AssemblyOnStdout /\ ~LaterStageRan
        ELSE ExitCode = 0 /\ AssemblyOnStdout

\* The half of C12 about programs with semantic errors.
C12_RejectedHalf ==
    (Finished /\ progErrors # {}) =>
        ExitCode = 1 /\ ~AssemblyOnStdout /\ ~LaterStageRan

C12_Witness == Finished /\ progErrors # {}

(***************************************************************************)
(* CodeGenerator::peepholeOptimize (part_011).  A line is the record of    *)
(* the fields the handlers cut out of its text.                            *)
(***************************************************************************)
Beq(rs1, rs2, lab) == Ins("beq", "", rs1, rs2, 0, lab)

NotApplied == [applied |-> FALSE, window |-> <<>>]

Applied(w) == [applied |-> TRUE, window |-> w]

\* "load_store_same": lw and sw of the same register and the same address.
load_store_same(instrs) ==
    IF Len(instrs) < 2 THEN NotApplied
    ELSE LET load == instrs[1]
             store == instrs[2]
         IN  IF /\ load.op = "lw"
                /\ store.op = "sw"
                /\ load.rd = store.rs2
                /\ load.imm = store.imm
                /\ load.rs1 = store.rs1
             THEN Applied(<<>>)
             ELSE NotApplied

\* "li_compare": li reg, 0 followed by a beq that compares with reg.
li_compare(instrs) ==
    IF Len(instrs) < 2 THEN NotApplied
    ELSE LET li == instrs[1]
             branch == instrs[2]
         IN  IF li.op = "li" /\ li.imm = 0 /\ branch.op = "beq"
             THEN IF branch.rs2 = li.rd
                  THEN Applied(<<Branch("beqz", branch.rs1, branch.lab)>>)
                  ELSE IF branch.rs1 = li.rd
                  THEN Applied(<<Branch("beqz", branch.rs2, branch.lab)>>)
                  ELSE NotApplied
             ELSE NotApplied

\* "redundant_move_never" is redundant_move with the comparison dropped.
redundant_move_never(instrs) == NotApplied

\* "redundant_move": mv of a register to itself.
redundant_move(instrs) ==
    IF Len(instrs) < 1 THEN NotApplied
    ELSE LET move == instrs[1]
         IN  IF move.op = "mv" /\ move.rd = move.rs1 THEN Applied(<<>>)
             ELSE NotApplied

\* The handlers in the order of the std::map that holds them (by name): the
\* first that applies rewrites the window.
ApplyPatterns(window) ==
    IF li_compare(window).applied THEN li_compare(window)
    ELSE IF load_store_same(window).applied THEN load_store_same(window)
    ELSE redundant_move(window)

\* One run of the for loop from position i (1-based): the window is the next
\* min(3, size - i) lines, and all of it is replaced by what the handler left.
RECURSIVE PeepPass(_, _, _)
PeepPass(instrs, i, changed) ==
    IF i > Len(instrs) THEN [instrs |-> instrs, changed |-> changed]
    ELSE LET windowSize == Min(3, Len(instrs) - i + 1)
             r == ApplyPatterns(SubSeq(instrs, i, i + windowSize - 1))
         IN  IF r.applied
             THEN PeepPass(SubSeq(instrs, 1, i - 1) \o r.window
                               \o SubSeq(instrs, i + windowSize, Len(instrs)),
                           i + Len(r.window), TRUE)
             ELSE PeepPass(instrs, i + 1, changed)

\* while (changed): passes until one changes nothing.
RECURSIVE peepholeOptimize(_)
peepholeOptimize(instrs) ==
    LET r == PeepPass(instrs, 1, FALSE)
    IN  IF r.changed THEN peepholeOptimize(r.instrs) ELSE r.instrs

MaxLines == 5

MaxPasses == 2

PeepLabel == <<"L", 1>>

PeepLines ==
    {Lw("t0", 0, "sp"), Sw("t0", 0, "sp"), Mv("a0", "a0"), Mv("a0", "t0"),
     Li("t0", 0), Beq("t1", "t0", PeepLabel), Beq("t0", "t1", PeepLabel)}

PeepholeOptimize ==
    /\ peepPasses < MaxPasses
    /\ peepOutput' = peepholeOptimize(peepOutput)
    /\ peepPasses' = peepPasses + 1
    /\ UNCHANGED peepInput
    /\ UNCHANGED <<semVars, optVars, progVars, asmVars, parseVars, allocVars, avVars, unitVars, symVars>>

PeepInit ==
    /\ SymIdle
    /\ UnitIdle
    /\ SemIdle
    /\ OptIdle
    /\ ProgIdle
    /\ AsmIdle
    /\ ParseIdle
    /\ AllocIdle
    /\ AvIdle
    /\ peepInput \in UNION {[1..n -> PeepLines] : n \in 0..MaxLines}
    /\ peepOutput = peepInput
    /\ peepPasses = 0

PeepNext == PeepholeOptimize

SpecPeep == PeepInit /\ [][PeepNext]_vars

\* An instance of one of the three patterns starts at line i of L.
PatternAt(L, i) ==
    \/ L[i].op = "mv" /\ L[i].rd = L[i].rs1
    \/ /\ i < Len(L)
       /\ L[i].op = "lw" /\ L[i + 1].op = "sw"
       /\ L[i].rd = L[i + 1].rs2 /\ L[i].imm = L[i + 1].imm /\ L[i].rs1 = L[i + 1].rs1
    \/ /\ i < Len(L)
       /\ L[i].op = "li" /\ L[i].imm = 0 /\ L[i + 1].op = "beq"
       /\ L[i].rd \in {L[i + 1].rs1, L[i + 1].rs2}

\* C14: once the pass has run (and so has terminated), running it on its own
\* output gives that output again, and the output holds no instance of the
\* three patterns the pass looks for.
C14_PeepholeIdempotent ==
    peepPasses >= 1 =>
        /\ peepholeOptimize(peepOutput) = peepOutput
        /\ \A i \in 1..Len(peepOutput) : ~PatternAt(peepOutput, i)

\* C14, as a step: a run after the first leaves the lines as they are.
C14_SecondRunChangesNothing ==
    [][peepPasses >= 1 => peepOutput' = peepOutput]_vars

\* The pass has been run twice on a list that the first run had to rewrite
\* in more than one pass of its loop.
C14_Witness ==
    /\ peepPasses = 2
    /\ peepOutput # peepInput
    /\ PeepPass(peepInput, 1, FALSE).instrs # peepOutput

(***************************************************************************)
(* The expression parsers.  Each of the three is a ladder of levels, one   *)
(* function (or grammar rule) per level, each level a left-associative     *)
(* loop over the operator tokens it matches.                               *)
(***************************************************************************)
Tok(type, name, num) == [type |-> type, name |-> name, num |-> num]

OpTok(type) == Tok(type, "", 0)

IdTok(name) == Tok("IDENTIFIER", name, 0)

NumTok(num) == Tok("NUMBER", "", num)

token_to_binary_op(type) ==
    CASE type = "PLUS" -> "ADD"
      [] type = "MINUS" -> "SUB"
      [] type = "MULTIPLY" -> "MUL"
      [] type = "DIVIDE" -> "DIV"
      [] type = "MODULO" -> "MOD"
      [] OTHER -> type

\* src/parser/parser.cpp: lorExpr, landExpr, relExpr, addExpr, mulExpr
ParserLevels ==
    <<{"OR"}, {"AND"}, {"LT", "GT", "LE", "GE", "EQ", "NE"},
      {"PLUS", "MINUS"}, {"MULTIPLY", "DIVIDE", "MODULO"}>>

\* part_004: parse_lor_expr, parse_land_expr, parse_rel_expr, parse_add_expr,
\* parse_mul_expr
ParseLevels ==
    <<{"OR"}, {"AND"}, {"LT", "GT", "LE", "GE", "EQ", "NE"},
      {"PLUS", "MINUS"}, {"MULTIPLY", "DIVIDE", "MODULO"}>>

\* part_010: LOrExpr, LAndExpr, RelExpr (RelOp), AddExpr (AddOp), MulExpr
\* (MulOp).  The grammar has no conflict for the %left lines to settle.
GrammarLevels ==
    <<{"OR"}, {"AND"}, {"LT", "GT", "LE", "GE", "EQ", "NE"},
      {"PLUS", "MINUS"}, {"MULTIPLY", "DIVIDE", "MODULO"}>>

\* The ladder the language defines: == and != one level below < > <= >=.
LanguageLevels ==
    <<{"OR"}, {"AND"}, {"EQ", "NE"}, {"LT", "GT", "LE", "GE"},
      {"PLUS", "MINUS"}, {"MULTIPLY", "DIVIDE", "MODULO"}>>

\* A parse result: the expression and the position of the next token.
RECURSIVE ParseBinary(_, _, _, _)
RECURSIVE ParseRest(_, _, _, _)
RECURSIVE ParseUnary(_, _, _)
RECURSIVE ParsePrimary(_, _, _)
ParseBinary(toks, pos, lv, levels) ==
    IF lv > Len(levels) THEN ParseUnary(toks, pos, levels)
    ELSE ParseRest(toks, ParseBinary(toks, pos, lv + 1, levels), lv, levels)

\* while (match(the operators of level lv)) { right = next level; ... }
ParseRest(toks, left, lv, levels) ==
    IF left.pos <= Len(toks) /\ toks[left.pos].type \in levels[lv]
    THEN LET right == ParseBinary(toks, left.pos + 1, lv + 1, levels)
         IN  ParseRest(toks,
                       [e |-> Bin(token_to_binary_op(toks[left.pos].type), left.e, right.e),
                        pos |-> right.pos],
                       lv, levels)
    ELSE left

ParseUnary(toks, pos, levels) ==
    IF toks[pos].type \in {"PLUS", "MINUS", "NOT"}
    THEN LET operand == ParseUnary(toks, pos + 1, levels)
         IN  [e |-> Un(toks[pos].type, operand.e), pos |-> operand.pos]
    ELSE ParsePrimary(toks, pos, levels)

ParsePrimary(toks, pos, levels) ==
    CASE toks[pos].type = "NUMBER" -> [e |-> Num(toks[pos].num), pos |-> pos + 1]
      [] toks[pos].type = "IDENTIFIER" -> [e |-> Var(toks[pos].name), pos |-> pos + 1]
      [] toks[pos].type = "LPAREN" ->
            LET inner == ParseBinary(toks, pos + 1, 1, levels)
            IN  [e |-> inner.e, pos |-> inner.pos + 1]

ParseWith(toks, levels) == ParseBinary(toks, 1, 1, levels).e

\* Parser::expr (src/parser/parser.cpp)
ParserExpr ==
    /\ parser = "Parser"
    /\ parsed = NoExpr
    /\ parsed' = ParseWith(tokens, ParserLevels)
    /\ UNCHANGED <<parser, tokens>>
    /\ UNCHANGED <<semVars, optVars, progVars, asmVars, peepVars, allocVars, avVars, unitVars, symVars>>

\* Parser::parse_expr (part_004)
ParseExpr ==
    /\ parser = "parse_expr"
    /\ parsed = NoExpr
    /\ parsed' = ParseWith(tokens, ParseLevels)
    /\ UNCHANGED <<parser, tokens>>
    /\ UNCHANGED <<semVars, optVars, progVars, asmVars, peepVars, allocVars, avVars, unitVars, symVars>>

\* the rule Expr of the yacc grammar (part_010)
GrammarExpr ==
    /\ parser = "grammar"
    /\ parsed = NoExpr
    /\ parsed' = ParseWith(tokens, GrammarLevels)
    /\ UNCHANGED <<parser, tokens>>
    /\ UNCHANGED <<semVars, optVars, progVars, asmVars, peepVars, allocVars, avVars, unitVars, symVars>>

\* The operands and operators of the expressions parsed.
OperandTokens ==
    {<<IdTok("a")>>,
     <<OpTok("LPAREN"), IdTok("a"), OpTok("PLUS"), NumTok(1), OpTok("RPAREN")>>,
     <<OpTok("MINUS"), IdTok("b"), OpTok("MULTIPLY"), IdTok("c")>>}

EqTokens == {"EQ", "NE"}

RelTokens == {"LT", "GT", "LE", "GE"}

JoinTokens == EqTokens \cup {"LT", "GE", "AND"}

TokenLists ==
    {A \o <<OpTok(o1)>> \o B \o <<OpTok(o2)>> \o C :
         A \in OperandTokens, B \in OperandTokens, C \in OperandTokens,
         o1 \in EqTokens \cup RelTokens, o2 \in EqTokens \cup RelTokens}
    \cup {A \o <<OpTok(o1)>> \o B \o <<OpTok(o2)>> \o C \o <<OpTok(o3)>> \o D :
              A \in OperandTokens, B \in OperandTokens, C \in OperandTokens,
              D \in OperandTokens, o1 \in JoinTokens, o2 \in JoinTokens,
              o3 \in JoinTokens}

ParseInit ==
    /\ SymIdle
    /\ UnitIdle
    /\ SemIdle
    /\ OptIdle
    /\ ProgIdle
    /\ AsmIdle
    /\ PeepIdle
    /\ AllocIdle
    /\ AvIdle
    /\ parser \in {"Parser", "parse_expr", "grammar"}
    /\ tokens \in TokenLists
    /\ parsed = NoExpr

ParseNext ==
    \/ ParserExpr
    \/ ParseExpr
    \/ GrammarExpr

SpecParse == ParseInit /\ [][ParseNext]_vars

Levels(p) ==
    CASE p = "Parser" -> ParserLevels
      [] p = "parse_expr" -> ParseLevels
      [] p = "grammar" -> GrammarLevels

\* What the running parser makes of an operand on its own.
Operand(A) == ParseWith(A, Levels(parser))

\* C15: once an expression is parsed, by any of the three parsers,
\* "A == B < C" has become A == (B < C) and "A < B == C < D" has become
\* (A < B) == (C < D), for == or != and any of < > <= >=.
C15_EqualityBelowRelational ==
    parsed # NoExpr =>
        \A A \in OperandTokens, B \in OperandTokens, C \in OperandTokens :
            \A e \in EqTokens, r \in RelTokens :
                /\ tokens = A \o <<OpTok(e)>> \o B \o <<OpTok(r)>> \o C =>
                       parsed = Bin(e, Operand(A), Bin(r, Operand(B), Operand(C)))
                /\ \A D \in OperandTokens : \A r2 \in RelTokens :
                       tokens = A \o <<OpTok(r)>> \o B \o <<OpTok(e)>> \o C
                                    \o <<OpTok(r2)>> \o D =>
                           parsed = Bin(e, Bin(r, Operand(A), Operand(B)),
                                           Bin(r2, Operand(C), Operand(D)))

\* The parse agrees with the ladder of the language definition.
ParsedAsLanguage == parsed # NoExpr => parsed = ParseWith(tokens, LanguageLevels)

C15_Witness ==
    /\ parsed # NoExpr
    /\ \E A \in OperandTokens, B \in OperandTokens, C \in OperandTokens :
          tokens = A \o <<OpTok("EQ")>> \o B \o <<OpTok("LT")>> \o C

(***************************************************************************)
(* The statement-level rewrites of the Optimizer, seen on the programs of  *)
(* SpecProg once Optimizer::optimize has returned.                         *)
(***************************************************************************)
Optimized == progStage \in {"optimized", "compiled"} /\ enable_optimization

ConstantIf(s) == s.k = "If" /\ s.c.k = "Num"

NeverWhile(s) == s.k = "While" /\ s.c = Num(0)

\* C16: after Optimizer::optimize has returned, the AST holds no If whose
\* condition is a number literal and no While whose condition is the
\* literal 0.
C16_ConstantBranchesRemoved ==
    Optimized => \A s \in Statements(progAst) : ~ConstantIf(s) /\ ~NeverWhile(s)

\* An If or While of this kind is met by the optimizer.
C16_Witness ==
    /\ Optimized
    /\ \E s \in Statements(progAst) : ConstantIf(s) \/ NeverWhile(s)

\* The variables assigned somewhere in s, and the loops of s.
AssignedIn(s) == {a.n : a \in {x \in Statements(s) : x.k = "Assign"}}

LoopsOf(s) == {w \in Statements(s) : w.k = "While"}

BodyLengths(s) == {Len(w.b.ss) : w \in LoopsOf(s)}

\* C17: a program whose loop holds a statement that does not read the loop
\* variables runs after optimization as before, for every argument (zero
\* iterations included); every variable the program assigned is still
\* assigned; and a statement whose target the body also reads stays in the
\* body.
C17_HoistingPreservesMeaning ==
    (Compiled /\ enable_optimization /\ progSrc \in HoistPrograms) =>
        /\ SameRun
        /\ AssignedIn(progAst) = AssignedIn(progSrc)
        /\ (\E v \in {1, 7} : progSrc = HoistAccumulate(v)) =>
               BodyLengths(progAst) = BodyLengths(progSrc)

\* The loop-variable-dependent statement is the one the code does keep.
HoistKeepsDependent ==
    (Compiled /\ enable_optimization /\ progSrc = HoistDependent) =>
        BodyLengths(progAst) = BodyLengths(progSrc)

C17_Witness ==
    /\ Compiled
    /\ enable_optimization
    /\ progSrc \in HoistPrograms
    /\ BodyLengths(progAst) # BodyLengths(progSrc)

(***************************************************************************)
(* Optimizer::optimize on a unit of several functions.  A function is its  *)
(* parameter and its body; the tables are the Optimizer's members          *)
(* constant_values and is_variable_constant.                               *)
(***************************************************************************)
UnitFunction(param, body) == [param |-> param, body |-> body]

\* Optimizer::optimize up to root.accept: the tables are cleared here.
OptimizeUnit ==
    /\ unitStage = "start"
    /\ constant_values' = <<>>
    /\ is_variable_constant' = {}
    /\ unitStage' = IF unitAst = <<>> THEN "done" ELSE "functions"
    /\ UNCHANGED <<unitSrc, unitAst, unitIdx, unitArg>>
    /\ UNCHANGED <<optVariant, optExpr, optEnv, optResult>>
    /\ UNCHANGED <<semVars, progVars, asmVars, peepVars, parseVars, allocVars, avVars, symVars>>

\* Optimizer::visit(FuncDef) on the next function of visit(CompUnit)'s loop:
\* the body is visited with the tables as the function before left them.
OptimizeFuncDef ==
    /\ unitStage = "functions"
    /\ unitIdx < Len(unitAst)
    /\ \E build \in Builds :
          LET n == unitIdx + 1
              start == [constant_values |-> constant_values,
                        is_variable_constant |-> is_variable_constant,
                        loop_info_stack |-> <<>>, crashed |-> FALSE]
              r == OptVisit(unitAst[n].body, start, build)
          IN  /\ unitAst' = [unitAst EXCEPT ![n].body = r.s]
              /\ constant_values' = r.st.constant_values
              /\ is_variable_constant' = r.st.is_variable_constant
              /\ unitIdx' = n
              /\ unitStage' = IF r.st.crashed THEN "crashed"
                              ELSE IF n = Len(unitAst) THEN "done" ELSE "functions"
    /\ UNCHANGED <<unitSrc, unitArg>>
    /\ UNCHANGED <<optVariant, optExpr, optEnv, optResult>>
    /\ UNCHANGED <<semVars, progVars, asmVars, peepVars, parseVars, allocVars, avVars, symVars>>

UnitValues == {3, 5, 7}

\* int f(int p){ int x = v; return x; }   int f(int p){ int y = v; return y + p; }
\* int f(int p){ int x = p; return x; }
FirstFunctions ==
    {UnitFunction("p", Block(<<VarDecl("x", Num(v)), ReturnStmt(X)>>)) : v \in UnitValues}
        \cup {UnitFunction("p", Block(<<VarDecl("y", Num(v)),
                                        ReturnStmt(Bin("ADD", Y, P))>>)) : v \in UnitValues}
        \cup {UnitFunction("p", Block(<<VarDecl("x", P), ReturnStmt(X)>>))}

\* int g(int x){ return x; }   int g(int x){ return x + 1; }
\* int g(int p){ int x = p; return x; }   int g(int p){ int x = 1; return x; }
LaterFunctions ==
    {UnitFunction("x", Block(<<ReturnStmt(X)>>)),
     UnitFunction("x", Block(<<ReturnStmt(Bin("ADD", X, Num(1)))>>)),
     UnitFunction("p", Block(<<VarDecl("x", P), ReturnStmt(X)>>)),
     UnitFunction("p", Block(<<VarDecl("x", Num(1)), ReturnStmt(X)>>))}

OptimizedUnits ==
    {<<f, g>> : f \in FirstFunctions, g \in LaterFunctions}
        \cup {<<f, g, h>> : f \in FirstFunctions, g \in LaterFunctions, h \in LaterFunctions}

UnitInit ==
    /\ SymIdle
    /\ SemIdle
    /\ OptIdle
    /\ ProgIdle
    /\ AsmIdle
    /\ PeepIdle
    /\ ParseIdle
    /\ AllocIdle
    /\ AvIdle
    /\ unitSrc \in OptimizedUnits
    /\ unitAst = unitSrc
    /\ unitIdx = 0
    /\ unitStage = "start"
    /\ unitArg \in {0, 1, 2}

UnitNext ==
    \/ OptimizeUnit
    \/ OptimizeFuncDef

SpecUnit == UnitInit /\ [][UnitNext]_vars

\* How a call of function f with the argument arg ends.
RunFunctionOf(f, arg) ==
    LET st == ExecStmt(f.body, Running(<<[n \in {f.param} |-> arg]>>, LoopFuel))
    IN  [ctl |-> st.ctl, val |-> st.val]

\* C18: whenever the optimizer is about to visit a function body the
\* constant table is empty, and once the unit is optimized every function
\* returns what it returned before: no constant recorded in an earlier
\* function has been substituted in it.
C18_ConstantsStayInFunction ==
    /\ (unitStage = "functions" /\ unitIdx < Len(unitAst)) =>
           constant_values = <<>> /\ is_variable_constant = {}
    /\ unitStage = "done" =>
           \A n \in 1..Len(unitAst) :
               RunFunctionOf(unitAst[n], unitArg) = RunFunctionOf(unitSrc[n], unitArg)

\* The table is empty at the start of the first function body.
FirstFunctionStartsEmpty ==
    (unitStage = "functions" /\ unitIdx = 0) =>
        constant_values = <<>> /\ is_variable_constant = {}

C18_Witness ==
    /\ unitStage = "functions"
    /\ unitIdx = 1
    /\ constant_values # <<>>

(***************************************************************************)
(* The two register allocators on their own, with any list of registers.   *)
(***************************************************************************)
RegisterNamed(name) == CHOOSE r \in {registers[i] : i \in 1..Len(registers)} : r.name = name

\* LinearScanRegisterAllocator::allocate up to its loop.
LinearScanBegin ==
    /\ allocator = "LINEAR_SCAN"
    /\ allocStage = "start"
    /\ LET iv == computeLiveIntervals(allocInstrs)
       IN  /\ lsOrder' = SortByStart(DOMAIN iv, iv)
           /\ allocStage' = IF DOMAIN iv = {} THEN "done" ELSE "scanning"
    /\ lsFreeRegs' = InitialFreeRegs(availableRegs)
    /\ lsActive' = <<>>
    /\ allocResult' = <<>>
    /\ UNCHANGED <<allocator, allocInstrs, availableRegs>>
    /\ UNCHANGED <<semVars, optVars, progVars, asmVars, peepVars, parseVars, avVars, unitVars, symVars>>

\* One turn of its loop: the next interval in order of start.
LinearScanNext ==
    /\ allocator = "LINEAR_SCAN"
    /\ allocStage = "scanning"
    /\ LET r == LinearScanInterval(Head(lsOrder), computeLiveIntervals(allocInstrs),
                                   allocResult, lsFreeRegs, lsActive)
       IN  /\ allocResult' = r.allocation
           /\ lsFreeRegs' = r.freeRegs
           /\ lsActive' = r.active
    /\ lsOrder' = Tail(lsOrder)
    /\ allocStage' = IF Tail(lsOrder) = <<>> THEN "done" ELSE "scanning"
    /\ UNCHANGED <<allocator, allocInstrs, availableRegs>>
    /\ UNCHANGED <<semVars, optVars, progVars, asmVars, peepVars, parseVars, avVars, unitVars, symVars>>

\* GraphColoringRegisterAllocator::allocate
GraphColoring ==
    /\ allocator = "GRAPH_COLOR"
    /\ allocStage = "start"
    /\ allocResult' = GraphColoringAllocateWith(allocInstrs, availableRegs)
    /\ allocStage' = "done"
    /\ UNCHANGED <<allocator, allocInstrs, availableRegs, lsOrder, lsFreeRegs, lsActive>>
    /\ UNCHANGED <<semVars, optVars, progVars, asmVars, peepVars, parseVars, avVars, unitVars, symVars>>

MaxInstrs == 4

\* v1 = 1, v2 = 1, v3 = 1, v2 = v1, v3 = v1, v3 = v2, v1 = v3
AllocPool ==
    {AssignInstr(Variable(v), Constant(1)) : v \in {"v1", "v2", "v3"}}
        \cup {AssignInstr(Variable("v2"), Variable("v1")),
              AssignInstr(Variable("v3"), Variable("v1")),
              AssignInstr(Variable("v3"), Variable("v2")),
              AssignInstr(Variable("v1"), Variable("v3"))}

RegisterLists ==
    {<<RegisterNamed("s1")>>,
     <<RegisterNamed("t0"), RegisterNamed("s1")>>,
     <<RegisterNamed("fp"), RegisterNamed("s1"), RegisterNamed("s2")>>,
     <<RegisterNamed("s0"), RegisterNamed("s1"), RegisterNamed("s2")>>,
     allocatableRegs}

\* v1 = 1; ...; vn = 1; v9 = v1; ...; v9 = vn: v1..vn and v9 are all live
\* when v9 is first written.
LiveTogether(n) ==
    [i \in 1..n |-> AssignInstr(Variable(OperandOrder[i + 1]), Constant(1))]
    \o [i \in 1..n |-> AssignInstr(Variable("v9"), Variable(OperandOrder[i + 1]))]

ManyLive == {LiveTogether(n) : n \in 6..8}

AllocInit ==
    /\ SymIdle
    /\ SemIdle
    /\ OptIdle
    /\ ProgIdle
    /\ AsmIdle
    /\ PeepIdle
    /\ ParseIdle
    /\ AvIdle
    /\ UnitIdle
    /\ allocator \in {"LINEAR_SCAN", "GRAPH_COLOR"}
    /\ allocInstrs \in UNION {[1..n -> AllocPool] : n \in 1..MaxInstrs} \cup ManyLive
    /\ availableRegs \in RegisterLists
    /\ allocResult = <<>>
    /\ allocStage = "start"
    /\ lsOrder = <<>>
    /\ lsFreeRegs = <<>>
    /\ lsActive = <<>>

AllocNext ==
    \/ LinearScanBegin
    \/ LinearScanNext
    \/ GraphColoring

SpecAlloc == AllocInit /\ [][AllocNext]_vars

\* Whether the intervals of v and w in iv overlap.
Overlap(iv, v, w) ==
    /\ v # w
    /\ iv[v].start <= iv[w].end
    /\ iv[w].start <= iv[v].end

NoSharedRegister(iv) ==
    \A v \in DOMAIN allocResult : \A w \in DOMAIN allocResult :
        Overlap(iv, v, w) => allocResult[v] # allocResult[w]

\* The variables already handled by the linear scan, and those of them whose
\* interval reaches the start of the one handled last.
Handled(iv) == DOMAIN iv \ {lsOrder[i] : i \in 1..Len(lsOrder)}

StillLive(iv) ==
    LET handled == Handled(iv)
        lastStart == CHOOSE s \in {iv[v].start : v \in handled} :
                         \A v \in handled : iv[v].start <= s
    IN  {v \in handled : iv[v].end >= lastStart}

LinearScanning ==
    allocator = "LINEAR_SCAN" /\ allocStage \in {"scanning", "done"} /\ allocResult # <<>>

\* C19: in the linear scan, after every interval handled, no two variables
\* with overlapping intervals share a register in the map; a variable whose
\* interval is still live but is no longer active (a spill victim) is mapped
\* to no register; and no register of the free list is held by an active
\* interval.
C19_LinearScanSound ==
    LinearScanning =>
        LET iv == computeLiveIntervals(allocInstrs)
        IN  /\ NoSharedRegister(iv)
            /\ \A v \in StillLive(iv) : v \notin DOMAIN lsActive => v \notin DOMAIN allocResult
            /\ \A i \in 1..Len(lsFreeRegs) :
                   \A v \in DOMAIN lsActive : lsActive[v] # lsFreeRegs[i]

\* The three parts of C19, one by one.
LinearScanNoSharedRegister ==
    LinearScanning => NoSharedRegister(computeLiveIntervals(allocInstrs))

LinearScanVictimUnmapped ==
    LinearScanning =>
        \A v \in StillLive(computeLiveIntervals(allocInstrs)) :
            v \notin DOMAIN lsActive => v \notin DOMAIN allocResult

LinearScanFreeListDisjoint ==
    LinearScanning =>
        \A i \in 1..Len(lsFreeRegs) : \A v \in DOMAIN lsActive : lsActive[v] # lsFreeRegs[i]

C19_Witness ==
    /\ LinearScanning
    /\ \E v \in DOMAIN allocResult :
          v \notin DOMAIN lsActive /\ v \in StillLive(computeLiveIntervals(allocInstrs))

\* The registers that the neighbours of v coloured before v have; order is
\* the colouring order.
TakenBefore(iv, order, v) ==
    LET position(x) == CHOOSE i \in 1..Len(order) : order[i] = x
    IN  {allocResult[w] : w \in {x \in DOMAIN allocResult :
                                    Overlap(iv, v, x) /\ position(x) < position(v)}}

\* C20: when the graph-colouring allocator is done, no two variables with
\* overlapping intervals share a register; every coloured variable has the
\* first allocatable register of the list that no neighbour coloured before
\* it has; and a variable is unmapped exactly when its earlier-coloured
\* neighbours have all of them.
C20_GraphColoringSound ==
    (allocator = "GRAPH_COLOR" /\ allocStage = "done") =>
        LET iv == computeLiveIntervals(allocInstrs)
            order == simplify(buildInterferenceGraph(allocInstrs))
            regNames == ColorRegNames(availableRegs)
        IN  /\ NoSharedRegister(iv)
            /\ \A v \in DOMAIN iv :
                   LET taken == TakenBefore(iv, order, v)
                       freeFor == SelectSeq(regNames, LAMBDA r : r \notin taken)
                   IN  IF freeFor = <<>> THEN v \notin DOMAIN allocResult
                       ELSE v \in DOMAIN allocResult /\ allocResult[v] = Head(freeFor)

\* Three variables live at once have been coloured with two registers: two
\* got different registers and the third stayed unmapped.
C20_Witness ==
    /\ allocator = "GRAPH_COLOR"
    /\ allocStage = "done"
    /\ LET iv == computeLiveIntervals(allocInstrs)
       IN  /\ Cardinality(DOMAIN iv) = 3
           /\ \A v \in DOMAIN iv : \A w \in DOMAIN iv : v # w => Overlap(iv, v, w)
    /\ Cardinality(DOMAIN allocResult) = 2

(***************************************************************************)
(* The registers an allocation may not use.                                *)
(***************************************************************************)
\* zero, sp, gp, tp, ra and the frame pointer x8, which is both fp and s0
ReservedRegisters == {"zero", "sp", "gp", "tp", "ra", "fp", "s0"}

AllocatorRan == allocStage \in {"scanning", "done"}

\* C21: with the registers CodeGenerator hands to an allocator, neither
\* strategy ever maps a variable to zero, sp, gp, tp, ra, fp or s0.
C21_NoReservedRegister ==
    (AllocatorRan /\ availableRegs = allocatableRegs) =>
        \A v \in DOMAIN allocResult : allocResult[v] \notin ReservedRegisters

\* The linear scan keeps to the claim: it leaves fp and s0 out by name.
LinearScanNoReservedRegister ==
    (AllocatorRan /\ allocator = "LINEAR_SCAN") =>
        \A v \in DOMAIN allocResult : allocResult[v] \notin ReservedRegisters

\* The colouring never uses a register flagged isReserved.
GraphColoringNoFlaggedRegister ==
    (AllocatorRan /\ allocator = "GRAPH_COLOR") =>
        \A v \in DOMAIN allocResult : ~RegisterNamed(allocResult[v]).isReserved

C21_Witness ==
    /\ allocStage = "done"
    /\ availableRegs = allocatableRegs
    /\ \E v \in DOMAIN allocResult : allocResult[v] = "s0"

(***************************************************************************)
(* Scratch registers and the registers of allocated variables.             *)
(***************************************************************************)
\* the registers that n calls of allocTempReg in a row hand out
RECURSIVE HandedOut(_, _)
HandedOut(g, n) ==
    IF n = 0 THEN {}
    ELSE LET a == allocTempReg(g)
         IN  {a.reg} \cup HandedOut(a.g, n - 1)

\* how many scratch registers the handler of instr asks for
ScratchCount(instr) ==
    CASE instr.opcode \in {"FUNCTION_BEGIN", "FUNCTION_END", "RETURN"} -> 0
      [] instr.opcode = "ASSIGN" -> 1
      [] OTHER -> 3

\* The variables written before instruction i and read after it that
\* instruction i itself does not mention.
LiveAcross(ins, i) ==
    LET iv == computeLiveIntervals(ins)
    IN  {v \in DOMAIN iv :
            /\ iv[v].start < i
            /\ i < iv[v].end
            /\ v \notin getDefinedVariables(ins[i]) \cup getUsedVariables(ins[i])}

\* C22: no scratch register that allocTempReg hands out while an instruction
\* is processed is the register of an allocated variable that is live
\* across that instruction.
C22_ScratchNotAllocated ==
    [][ProcessInstruction =>
          \A v \in LiveAcross(instructions, cg.irIdx) \cap DOMAIN cg.regAlloc :
              cg.regAlloc[v] \notin HandedOut(cg, ScratchCount(instructions[cg.irIdx]))]_vars

\* Under LINEAR_SCAN, which hands out s-registers only, and under NAIVE the
\* scratch registers are never registers of variables.
ScratchNotAllocatedWithoutColoring ==
    (generator = "ir" /\ regAllocStrategy # "GRAPH_COLOR" /\ "regAlloc" \in DOMAIN cg) =>
        \A v \in DOMAIN cg.regAlloc : cg.regAlloc[v] \notin TRegs \cup ARegs

\* What the clobbering does: the function returns another value.
IrReturnsValue ==
    (generator = "ir" /\ asmStage = "returned") => cpu.x["a0"] = ReturnValue

(***************************************************************************)
(* The IR code generator on whole functions: frames, calls, immediates.    *)
(* The lines are generated and not run.                                    *)
(***************************************************************************)
MaxLocals == 4

\* int v1 = 1; ...; int vn = 1; return v1;
LocalsProgram(n) ==
    <<FunctionBeginInstr>>
    \o [i \in 1..n |-> AssignInstr(Variable(OperandOrder[i + 1]), Constant(1))]
    \o <<ReturnInstr(Variable("v1")), FunctionEndInstr>>

\* return f();
ZeroArgFirst ==
    <<FunctionBeginInstr, CallInstr(Temp("t0"), "f", 0, <<>>),
      ReturnInstr(Temp("t0")), FunctionEndInstr>>

\* t0 = f(1, 5); t0 = g(t0); h(); return t0;
TwoCalls ==
    <<FunctionBeginInstr,
      ParamInstr(Constant(1)), ParamInstr(Constant(5)),
      CallInstr(Temp("t0"), "f", 2, <<>>),
      ParamInstr(Temp("t0")),
      CallInstr(Temp("t0"), "g", 1, <<>>),
      CallInstr(NoOperand, "h", 0, <<>>),
      ReturnInstr(Temp("t0")), FunctionEndInstr>>

\* int v1 = 1; return f(v1, 1, 2, 3, 4, 5, 6, 7, 8);
NineArgs ==
    <<FunctionBeginInstr, AssignInstr(Variable("v1"), Constant(1)),
      ParamInstr(Variable("v1"))>>
    \o [i \in 1..8 |-> ParamInstr(Constant(i))]
    \o <<CallInstr(Temp("t0"), "f", 9, <<>>),
         ReturnInstr(Temp("t0")), FunctionEndInstr>>

\* return f(5); with the operand on the call as well as in a Param
OwnParams ==
    <<FunctionBeginInstr, ParamInstr(Constant(5)),
      CallInstr(Temp("t0"), "f", 1, <<Constant(5)>>),
      ReturnInstr(Temp("t0")), FunctionEndInstr>>

\* t0 = 1; t0 = t0 + 1; (k times) return t0;
LongProgram(k) ==
    <<FunctionBeginInstr, AssignInstr(Temp("t0"), Constant(1))>>
    \o [i \in 1..k |-> BinaryOpInstr("ADD", Temp("t0"), Temp("t0"), Constant(1))]
    \o <<ReturnInstr(Temp("t0")), FunctionEndInstr>>

\* lengths around the one whose frame is 2048 bytes
LongSizes == {503, 507, 508}

GenPrograms ==
    {LocalsProgram(n) : n \in 1..MaxLocals}
    \cup {ZeroArgFirst, TwoCalls, NineArgs, OwnParams}
    \cup {LongProgram(k) : k \in LongSizes}
    \cup {IrProgram(n, Bin("ADD", Num(1), Num(5))) : n \in IrSizes}

GenInit ==
    /\ SymIdle
    /\ SemIdle
    /\ OptIdle
    /\ ProgIdle
    /\ PeepIdle
    /\ ParseIdle
    /\ AllocIdle
    /\ AvIdle
    /\ UnitIdle
    /\ generator = "ir"
    /\ asmExpr = [k |-> "None"]
    /\ regAllocStrategy \in Strategies
    /\ instructions \in GenPrograms
    /\ cg = IrStart(regAllocStrategy, instructions)
    /\ cpu = EntryCpu
    /\ asmStage = "generating"

GenNext == ProcessInstruction

SpecGen == GenInit /\ [][GenNext]_vars

\* the prologue of the function is out and its epilogue is not
InFunction == generator = "ir" /\ asmStage = "generating" /\ cg.irIdx > 1

\* the fp-relative slots handed out so far
SlotsHandedOut == Cardinality(DOMAIN cg.localVars) + Cardinality(DOMAIN cg.regOffsetMap)

\* the bytes at 0(sp), 4(sp), ... that the calls processed so far store to
OutgoingArea ==
    LET calls == {i \in 1..(cg.irIdx - 1) : instructions[i].opcode = "CALL"}
        sizes == {4 * Max(0, instructions[i].paramCount - 8) : i \in calls} \cup {0}
    IN  CHOOSE m \in sizes : \A x \in sizes : x <= m

\* C23: the frame of a function is at least 8 bytes plus 4 bytes for every
\* fp-relative slot handed out in it plus its outgoing-argument area.
C23_FrameHoldsSlots ==
    InFunction => cg.frameSize >= 8 + 4 * SlotsHandedOut + OutgoingArea

\* The same without the outgoing arguments: no slot lies below sp.
NoSlotBelowSp ==
    InFunction => cg.frameSize >= 8 + 4 * SlotsHandedOut

\* A function that uses no more than two slots fits the smallest frame.
TwoSlotsFit ==
    (InFunction /\ SlotsHandedOut <= 2 /\ OutgoingArea = 0) =>
        cg.frameSize >= 8 + 4 * SlotsHandedOut

(***************************************************************************)
(* Calls.                                                                  *)
(***************************************************************************)
\* the lines among `lines` that are `call <name>`
CallLinesIn(lines) == {i \in 1..Len(lines) : lines[i].op = "call"}

\* the operands of the n Params that stand right before instruction k
ParamsOf(ins, k, n) == [i \in 1..n |-> ins[k - n + i - 1].left]

\* the line that brings operand op into reg
ArgLine(g, op, reg) ==
    LET loaded == loadOperand(g, op, reg)
    IN  loaded.out[Len(loaded.out)]

\* lines (up to its call) places the operands args: the first eight in
\* a0..a7 and in no other a-register, the others at 0(sp), 4(sp), ...
ArgumentsPlaced(g, lines, args) ==
    LET upTo == IF CallLinesIn(lines) = {} THEN Len(lines)
                ELSE CHOOSE c \in CallLinesIn(lines) : \A d \in CallLinesIn(lines) : c <= d
        writes(r) == {j \in 1..upTo : WritesRd(lines[j]) /\ lines[j].rd = r}
    IN  /\ \A i \in 1..Len(args) :
              IF i <= 8
              THEN /\ writes(argRegs[i]) # {}
                   /\ \A j \in writes(argRegs[i]) : lines[j] = ArgLine(g, args[i], argRegs[i])
              ELSE \E j \in 2..upTo : \E t \in TRegs :
                       /\ lines[j] = Sw(t, (i - 9) * 4, "sp")
                       /\ lines[j - 1] = ArgLine(g, args[i], t)
        /\ \A i \in (Len(args) + 1)..8 : writes(argRegs[i]) = {}

\* the instruction that ProcessInstruction is about to process is a call
AtCall == instructions[cg.irIdx].opcode = "CALL"

NewLines == SubSeq(cg'.out, Len(cg.out) + 1, Len(cg'.out))

\* C24: processing a Call instruction emits exactly one `call <name>`,
\* places exactly the operands of the Params that belong to the call, and
\* leaves those Params out of the parameter queue.
C24_CallEmitted ==
    [][(ProcessInstruction /\ AtCall) =>
          LET instr == instructions[cg.irIdx]
              args == ParamsOf(instructions, cg.irIdx, instr.paramCount)
          IN  /\ Cardinality(CallLinesIn(NewLines)) = 1
              /\ \A i \in CallLinesIn(NewLines) : NewLines[i] = CallLine(instr.funcName)
              /\ ArgumentsPlaced(cg', NewLines, args)
              /\ Len(cg'.paramQueue) = Len(cg.paramQueue) - instr.paramCount]_vars

\* What holds of it: a call that finds its operands emits one call line with
\* exactly its own arguments placed, and no call emits two.
CallPlacesItsArguments ==
    [][(ProcessInstruction /\ AtCall) =>
          LET instr == instructions[cg.irIdx]
              args == ParamsOf(instructions, cg.irIdx, instr.paramCount)
          IN  /\ Cardinality(CallLinesIn(NewLines)) <= 1
              /\ CallLinesIn(NewLines) # {} =>
                     /\ \A i \in CallLinesIn(NewLines) : NewLines[i] = CallLine(instr.funcName)
                     /\ ArgumentsPlaced(cg', NewLines, args)]_vars

\* A call without operands of its own is emitted when the queue is not empty.
CallEmittedWhenQueued ==
    [][(ProcessInstruction /\ AtCall /\ cg.paramQueue # <<>>) =>
          Cardinality(CallLinesIn(NewLines)) = 1]_vars

\* The Params stay in the queue unless the call carries its own operands.
QueueKeptByCall ==
    [][(ProcessInstruction /\ AtCall /\ instructions[cg.irIdx].params = <<>>) =>
          cg'.paramQueue = cg.paramQueue]_vars

(***************************************************************************)
(* Immediates.                                                             *)
(***************************************************************************)
\* a 12-bit signed immediate
FitsImmediate(imm) == 0 - 2048 <= imm /\ imm <= 2047

ImmediateLines(lines) == {i \in 1..Len(lines) : lines[i].op \in {"addi", "lw", "sw"}}

\* C30: the immediate of every addi, lw and sw that the IR code generator
\* emits lies in [-2048, 2047].
C30_ImmediatesFit ==
    generator = "ir" =>
        \A i \in ImmediateLines(cg.out) : FitsImmediate(cg.out[i].imm)

\* Every lw and sw fits, and so does every addi that is not the `addi fp,
\* sp, size` of a prologue or the `addi sp, sp, size` of an epilogue.
LoadsAndStoresFit ==
    generator = "ir" =>
        \A i \in ImmediateLines(cg.out) :
            \/ FitsImmediate(cg.out[i].imm)
            \/ cg.out[i] \in {Addi("fp", "sp", 2048), Addi("sp", "sp", 2048)}

(***************************************************************************)
(* The rewrites of the peephole pass against the three listed rules.       *)
(***************************************************************************)
\* L without its lines i..j, with the lines mid in their place
Splice(L, i, j, mid) == SubSeq(L, 1, i - 1) \o mid \o SubSeq(L, j + 1, Len(L))

\* The lists one application of a listed rule makes of L: `mv rX, rX`
\* deleted; `li rT, 0; beq rA, rT, L` (either operand order) replaced by
\* `beqz rA, L`; the lw of `sw rX, k(b); lw rX, k(b)` deleted.
ListedRewrites(L) ==
    {Splice(L, i, i, <<>>) : i \in {j \in 1..Len(L) : L[j].op = "mv" /\ L[j].rd = L[j].rs1}}
    \cup {Splice(L, i, i + 1, <<Branch("beqz", L[i + 1].rs1, L[i + 1].lab)>>) :
             i \in {j \in 1..(Len(L) - 1) :
                       /\ L[j].op = "li" /\ L[j].imm = 0
                       /\ L[j + 1].op = "beq" /\ L[j + 1].rs2 = L[j].rd}}
    \cup {Splice(L, i, i + 1, <<Branch("beqz", L[i + 1].rs2, L[i + 1].lab)>>) :
             i \in {j \in 1..(Len(L) - 1) :
                       /\ L[j].op = "li" /\ L[j].imm = 0
                       /\ L[j + 1].op = "beq" /\ L[j + 1].rs1 = L[j].rd}}
    \cup {Splice(L, i + 1, i + 1, <<>>) :
             i \in {j \in 1..(Len(L) - 1) :
                       /\ L[j].op = "sw" /\ L[j + 1].op = "lw"
                       /\ L[j].rs2 = L[j + 1].rd /\ L[j].imm = L[j + 1].imm
                       /\ L[j].rs1 = L[j + 1].rs1}}

\* the lists that any number of applications of the listed rules makes
RECURSIVE ListedClosure(_)
ListedClosure(S) ==
    LET next == S \cup UNION {ListedRewrites(L) : L \in S}
    IN  IF next = S THEN S ELSE ListedClosure(next)

\* C25: what the pass makes of its input is made by applications of the
\* three listed rules to adjacent lines, each of which leaves every other
\* line as it is and in its place.
C25_OnlyListedRewrites ==
    peepPasses >= 1 => peepOutput \in ListedClosure({peepInput})

\* A list that holds none of the patterns the handlers look for is left as
\* it is.
NoPatternNoRewrite ==
    (peepPasses >= 1 /\ \A i \in 1..Len(peepInput) : ~PatternAt(peepInput, i)) =>
        peepOutput = peepInput

\* The lines of the output are lines of the input or fused branches.
NoLineInvented ==
    peepPasses >= 1 =>
        \A i \in 1..Len(peepOutput) :
            \/ \E j \in 1..Len(peepInput) : peepOutput[i] = peepInput[j]
            \/ peepOutput[i].op = "beqz"

(***************************************************************************)
(* The symbol table under any sequence of its operations.                  *)
(***************************************************************************)
EnterScope ==
    /\ walkStage = "table"
    /\ Len(symbol_table.scopes) < MaxDepth
    /\ symbol_table.next_scope_level < MaxLevel
    /\ symbol_table' = enter_scope(symbol_table)
    /\ UNCHANGED <<walkFunc, walkStage, walkErrors, walkOut>>
    /\ UNCHANGED <<semVars, optVars, progVars, asmVars, peepVars, parseVars, allocVars, avVars, unitVars>>

ExitScope ==
    /\ walkStage = "table"
    /\ symbol_table' = exit_scope(symbol_table)
    /\ UNCHANGED <<walkFunc, walkStage, walkErrors, walkOut>>
    /\ UNCHANGED <<semVars, optVars, progVars, asmVars, peepVars, parseVars, allocVars, avVars, unitVars>>

\* the analyzer defines variables and parameters inside a function only
DefineVariable ==
    /\ walkStage = "table"
    /\ Len(symbol_table.scopes) > 1
    /\ Back(symbol_table.scope_stack_size) < MaxSlots
    /\ \E name \in SymNames : symbol_table' = define_variable(symbol_table, name).t
    /\ UNCHANGED <<walkFunc, walkStage, walkErrors, walkOut>>
    /\ UNCHANGED <<semVars, optVars, progVars, asmVars, peepVars, parseVars, allocVars, avVars, unitVars>>

\* the analyzer defines variables and parameters inside a function only
DefineParameter ==
    /\ walkStage = "table"
    /\ Len(symbol_table.scopes) > 1
    /\ Back(symbol_table.scope_stack_size) < MaxSlots
    /\ \E name \in SymNames : symbol_table' = define_parameter(symbol_table, name).t
    /\ UNCHANGED <<walkFunc, walkStage, walkErrors, walkOut>>
    /\ UNCHANGED <<semVars, optVars, progVars, asmVars, peepVars, parseVars, allocVars, avVars, unitVars>>

ScopeInit ==
    /\ SemIdle
    /\ OptIdle
    /\ ProgIdle
    /\ AsmIdle
    /\ PeepIdle
    /\ ParseIdle
    /\ AllocIdle
    /\ AvIdle
    /\ UnitIdle
    /\ walkFunc = <<>>
    /\ walkErrors = <<>>
    /\ walkOut = <<>>
    /\ walkStage = "table"
    /\ symbol_table = SymbolTable

ScopeNext == EnterScope \/ ExitScope \/ DefineVariable \/ DefineParameter

SpecScope == ScopeInit /\ [][ScopeNext]_vars

\* the names that lookup_symbol finds as variables or parameters
VisibleNames(t) ==
    {name \in SymNames : /\ IsDefined(t, name)
                         /\ lookup_symbol(t, name).symbol_type \in {"VARIABLE", "PARAMETER"}}

\* C26: two symbols that are visible at the same time never have the same
\* stack_offset.
C26_VisibleOffsetsDistinct ==
    walkStage = "table" =>
        \A a, b \in VisibleNames(symbol_table) :
            a # b => lookup_symbol(symbol_table, a).stack_offset
                         # lookup_symbol(symbol_table, b).stack_offset

\* What holds of it: the symbols of one scope have offsets that differ.
SameScopeOffsetsDistinct ==
    walkStage = "table" =>
        \A i \in 1..Len(symbol_table.scopes) :
            \A a, b \in DOMAIN symbol_table.scopes[i].symbols :
                a # b => symbol_table.scopes[i].symbols[a].stack_offset
                             # symbol_table.scopes[i].symbols[b].stack_offset

(***************************************************************************)
(* The semantic analyzer (src/TOYC2/src/semantic.cpp) and then the AST     *)
(* code generator (src/src/code_generator.cpp) on one symbol table.        *)
(* w = [t: symbol_table, errors, return_type: current_function_return_type,*)
(* has_return: current_function_has_return].                               *)
(***************************************************************************)
Function(name, return_type, params, body) ==
    [name |-> name, return_type |-> return_type, params |-> params, body |-> body]

report_error(w, type, name) == [w EXCEPT !.errors = Append(@, [type |-> type, name |-> name])]

check_type_compatibility(expected, actual) == expected = actual

\* SemanticAnalyzer::visit of NumberExpr, VarExpr, BinaryExpr and UnaryExpr:
\* the walk state and last_expr_type
RECURSIVE analyze_expression(_, _)
analyze_expression(expr, state) ==
    Bind(state, LAMBDA w :
    CASE expr.k = "Num" -> [w |-> w, type |-> "INT"]
      [] expr.k = "Var" ->
            IF ~IsDefined(w.t, expr.n)
            THEN [w |-> report_error(w, "UNDEFINED_VARIABLE", expr.n), type |-> "INT"]
            ELSE LET var == lookup_symbol(w.t, expr.n)
                 IN  IF var.symbol_type \notin {"VARIABLE", "PARAMETER"}
                     THEN [w |-> report_error(w, "TYPE_MISMATCH", expr.n), type |-> "INT"]
                     ELSE [w |-> w, type |-> var.data_type]
      [] expr.k = "Bin" ->
            LET left == analyze_expression(expr.l, w)
                right == analyze_expression(expr.r, left.w)
            IN  IF expr.op \in {"DIV", "MOD"} /\ expr.r = Num(0)
                THEN [w |-> report_error(right.w, "DIVISION_BY_ZERO", ""), type |-> "INT"]
                ELSE [w |-> right.w, type |-> "INT"]
      [] expr.k = "Un" -> [w |-> analyze_expression(expr.e, w).w, type |-> "INT"])

RECURSIVE SemVisit(_, _)
RECURSIVE SemVisitSeq(_, _, _)
SemVisitSeq(ss, i, w) ==
    IF i > Len(ss) THEN w
    ELSE Bind(SemVisit(ss[i], w), LAMBDA visited : SemVisitSeq(ss, i + 1, visited))

\* SemanticAnalyzer::visit of Block, ExprStmt, VarDecl, AssignStmt and
\* ReturnStmt (with a value)
SemVisit(s, state) ==
    Bind(state, LAMBDA w :
    CASE s.k = "Block" ->
            LET inner == SemVisitSeq(s.ss, 1, [w EXCEPT !.t = enter_scope(@)])
            IN  [inner EXCEPT !.t = exit_scope(@)]
      [] s.k = "ExprStmt" -> analyze_expression(s.e, w).w
      [] s.k = "VarDecl" ->
            LET d == define_variable(w.t, s.n)
            IN  IF ~d.ok
                THEN report_error([w EXCEPT !.t = d.t], "REDEFINED_VARIABLE", s.n)
                ELSE LET init == analyze_expression(s.e, [w EXCEPT !.t = d.t])
                     IN  IF ~check_type_compatibility("INT", init.type)
                         THEN report_error(init.w, "TYPE_MISMATCH", s.n)
                         ELSE init.w
      [] s.k = "Assign" ->
            IF ~IsDefined(w.t, s.n)
            THEN report_error(w, "UNDEFINED_VARIABLE", s.n)
            ELSE LET var == lookup_symbol(w.t, s.n)
                 IN  IF var.symbol_type \notin {"VARIABLE", "PARAMETER"}
                     THEN report_error(w, "TYPE_MISMATCH", s.n)
                     ELSE LET value == analyze_expression(s.e, w)
                          IN  IF ~check_type_compatibility(var.data_type, value.type)
                              THEN report_error(value.w, "TYPE_MISMATCH", s.n)
                              ELSE value.w
      [] s.k = "Return" ->
            LET returning == [w EXCEPT !.has_return = TRUE]
            IN  IF w.return_type = "VOID"
                THEN report_error(returning, "VOID_FUNCTION_RETURN_VALUE", "")
                ELSE LET value == analyze_expression(s.e, returning)
                     IN  IF ~check_type_compatibility(w.return_type, value.type)
                         THEN report_error(value.w, "INVALID_RETURN_TYPE", "")
                         ELSE value.w)

RECURSIVE DefineParameters(_, _, _)
DefineParameters(params, i, w) ==
    IF i > Len(params) THEN w
    ELSE Bind(define_parameter(w.t, params[i]), LAMBDA d :
         Bind(IF d.ok THEN [w EXCEPT !.t = d.t]
              ELSE report_error([w EXCEPT !.t = d.t], "REDEFINED_VARIABLE", params[i]),
              LAMBDA defined : DefineParameters(params, i + 1, defined)))

\* SemanticAnalyzer::visit(FuncDef)
SemVisitFuncDef(node, w) ==
    LET entered == [w EXCEPT !.return_type = node.return_type, !.has_return = FALSE,
                             !.t = enter_scope(@)]
        body == SemVisit(node.body, DefineParameters(node.params, 1, entered))
        checked == IF /\ body.return_type = "INT"
                      /\ ~body.has_return
                      /\ ~has_return_statement(node.body)
                   THEN report_error(body, "MISSING_RETURN_STATEMENT", node.name)
                   ELSE body
    IN  [checked EXCEPT !.t = exit_scope(@), !.return_type = "VOID"]

RECURSIVE SemDefineFunctions(_, _, _)
SemDefineFunctions(functions, i, w) ==
    IF i > Len(functions) THEN w
    ELSE Bind(define_function(w.t, functions[i].name, functions[i].return_type,
                              [k \in 1..Len(functions[i].params) |-> "INT"]), LAMBDA d :
         Bind(IF d.ok THEN [w EXCEPT !.t = d.t]
              ELSE report_error([w EXCEPT !.t = d.t], "REDEFINED_FUNCTION", functions[i].name),
              LAMBDA defined : SemDefineFunctions(functions, i + 1, defined)))

RECURSIVE SemVisitFunctions(_, _, _)
SemVisitFunctions(functions, i, w) ==
    IF i > Len(functions) THEN w
    ELSE Bind(SemVisitFuncDef(functions[i], w), LAMBDA visited :
             SemVisitFunctions(functions, i + 1, visited))

\* SemanticAnalyzer::analyze with SemanticAnalyzer::visit(CompUnit)
analyze(root) ==
    LET start == [t |-> SymbolTable, errors |-> <<>>, return_type |-> "VOID",
                  has_return |-> FALSE]
        visited == SemVisitFunctions(root, 1, SemDefineFunctions(root, 1, start))
        globals == visited.t.scopes[1].symbols
    IN  IF "main" \notin DOMAIN globals \/ globals["main"].symbol_type # "FUNCTION"
        THEN report_error(visited, "UNDEFINED_FUNCTION", "main")
        ELSE IF globals["main"].data_type # "INT" \/ globals["main"].param_types # <<>>
             THEN report_error(visited, "INVALID_RETURN_TYPE", "main")
             ELSE visited

RECURSIVE GenVisit(_, _)
RECURSIVE GenVisitSeq(_, _, _)
GenVisitSeq(ss, i, st) ==
    IF i > Len(ss) THEN st
    ELSE Bind(GenVisit(ss[i], st), LAMBDA visited : GenVisitSeq(ss, i + 1, visited))

\* CodeGenerator::visit of Block, ExprStmt, VarDecl, AssignStmt and ReturnStmt
GenVisit(s, state) ==
    Bind(state, LAMBDA st :
    IF s.k = "Block"
    THEN Bind(GenVisitSeq(s.ss, 1, [st EXCEPT !.symbol_table = enter_scope(@)]), LAMBDA inner :
             [inner EXCEPT !.symbol_table = exit_scope(@)])
    ELSE IF s.k = "Return" THEN VisitReturn(s.e, st)
    ELSE Bind(generate_expr(s.e, st), LAMBDA value :
             IF s.k \in {"VarDecl", "Assign"}
             THEN free_temp_register(store_variable(s.n, value.reg, value.st), value.reg)
             ELSE free_temp_register(value.st, value.reg)))

\* the `sw aN, -4*(N+1)(sp)` of the first eight parameters
ParamStores(params) ==
    [i \in 1..(IF Len(params) < 8 THEN Len(params) ELSE 8) |-> Sw(argRegs[i], (0 - 4) * i, "sp")]

\* CodeGenerator::visit(FuncDef)
GenVisitFuncDef(node, st) ==
    emit(emit(GenVisit(node.body,
                       emit(st, <<Label(<<node.name, 0>>)>> \o setup_function_prologue
                                \o ParamStores(node.params))),
              IF node.return_type = "VOID" THEN <<Li("a0", 0)>> ELSE <<>>),
         setup_function_epilogue)

RECURSIVE GenVisitFunctions(_, _, _)
GenVisitFunctions(functions, i, st) ==
    IF i > Len(functions) THEN st
    ELSE Bind(GenVisitFuncDef(functions[i], st), LAMBDA visited :
             GenVisitFunctions(functions, i + 1, visited))

\* CodeGenerator::generate on the analyzer's table (the instructions of the
\* output; directives and blank lines are no instructions)
generate(root, table) == GenVisitFunctions(root, 1, [AstStart EXCEPT !.symbol_table = table])

(***************************************************************************)
(* The analyzer of src/unnamed/part_001 on the same units.                 *)
(* a = [symbolTables, errorMessages, hasReturn]; an error is reported once *)
(* for one message and position, the position `at` of a node being its     *)
(* path in the unit.                                                       *)
(***************************************************************************)
\* analyzeHelper::error
error(a, message, name, at) ==
    LET fullMessage == [type |-> message, name |-> name, at |-> at]
    IN  IF \E i \in 1..Len(a.errorMessages) : a.errorMessages[i] = fullMessage
        THEN a
        ELSE [a EXCEPT !.errorMessages = Append(@, fullMessage)]

\* analyzeHelper::findSymbol
ScopesWith(a, name) == {i \in 1..Len(a.symbolTables) : name \in DOMAIN a.symbolTables[i]}

findSymbol(a, name) ==
    LET i == CHOOSE k \in ScopesWith(a, name) : \A j \in ScopesWith(a, name) : j <= k
    IN  a.symbolTables[i][name]

\* analyzeHelper::declareSymbol
declareSymbol(a, name, symbol) ==
    IF name \in DOMAIN Back(a.symbolTables)
    THEN a
    ELSE [a EXCEPT !.symbolTables[Len(a.symbolTables)] = (name :> symbol) @@ @]

\* typeVisitor::getExprType: the type, and the analyzer with what the type
\* visitor reports
RECURSIVE getExprType(_, _, _)
getExprType(expr, at, state) ==
    Bind(state, LAMBDA a :
    CASE expr.k = "Num" -> [a |-> a, type |-> "int"]
      [] expr.k = "Var" ->
            IF ScopesWith(a, expr.n) = {}
            THEN [a |-> a, type |-> "error"]
            ELSE [a |-> a, type |-> findSymbol(a, expr.n).type]
      [] expr.k = "Bin" ->
            LET left == getExprType(expr.l, at \o <<1>>, a)
                right == getExprType(expr.r, at \o <<2>>, left.a)
            IN  IF left.type # "int" \/ right.type # "int"
                THEN [a |-> error(right.a, "Binary operator requires integer operands", "", at),
                      type |-> "error"]
                ELSE [a |-> right.a, type |-> "int"]
      [] expr.k = "Un" ->
            LET operand == getExprType(expr.e, at \o <<1>>, a)
            IN  IF operand.type # "int"
                THEN [a |-> error(operand.a, "Unary operator requires integer operand", "", at),
                      type |-> "error"]
                ELSE [a |-> operand.a, type |-> "int"])

\* analyzeVisitor::visit of NumberExpr, VariableExpr, BinaryExpr and UnaryExpr
RECURSIVE analyzeExpr(_, _, _)
analyzeExpr(expr, at, state) ==
    Bind(state, LAMBDA a :
    CASE expr.k = "Num" -> a
      [] expr.k = "Var" ->
            IF ScopesWith(a, expr.n) = {}
            THEN error(a, "Undefined variable", expr.n, at)
            ELSE a
      [] expr.k = "Bin" ->
            LET visited == analyzeExpr(expr.r, at \o <<2>>, analyzeExpr(expr.l, at \o <<1>>, a))
                left == getExprType(expr.l, at \o <<1>>, visited)
                right == getExprType(expr.r, at \o <<2>>, left.a)
                typed == IF left.type # "int" \/ right.type # "int"
                         THEN error(right.a, "Binary operator requires int operands", "", at)
                         ELSE right.a
                rval == evaluateConstant(expr.r)
            IN  IF expr.op \in {"DIV", "MOD"} /\ rval.has /\ rval.v = 0
                THEN error(typed, "Division by zero", "", at)
                ELSE typed
      [] expr.k = "Un" ->
            LET operand == getExprType(expr.e, at \o <<1>>, analyzeExpr(expr.e, at \o <<1>>, a))
            IN  IF operand.type # "int"
                THEN error(operand.a, "Unary operator requires int operand", "", at)
                ELSE operand.a)

\* expr->accept(*this) followed by typeChecker.getExprType(*expr)
Typed(expr, at, a) == getExprType(expr, at, analyzeExpr(expr, at, a))

RECURSIVE analyzeStmt(_, _, _)
RECURSIVE analyzeStmts(_, _, _, _)
analyzeStmts(ss, i, at, a) ==
    IF i > Len(ss) THEN a
    ELSE Bind(analyzeStmt(ss[i], at \o <<i>>, a), LAMBDA visited :
             analyzeStmts(ss, i + 1, at, visited))

\* analyzeVisitor::visit of BlockStmt, ExprStmt, VarDeclStmt, AssignStmt and
\* ReturnStmt (with a value) in a function that returns int
analyzeStmt(s, at, state) ==
    Bind(state, LAMBDA a :
    CASE s.k = "Block" ->
            LET inner == analyzeStmts(s.ss, 1, at, [a EXCEPT !.symbolTables = Append(@, <<>>)])
            IN  [inner EXCEPT !.symbolTables = SubSeq(@, 1, Len(@) - 1)]
      [] s.k = "ExprStmt" -> analyzeExpr(s.e, at \o <<0>>, a)
      [] s.k = "VarDecl" ->
            LET checked == IF s.n \in DOMAIN Back(a.symbolTables)
                           THEN error(a, "already declared in current scope", s.n, at)
                           ELSE a
                init == Typed(s.e, at \o <<0>>, checked)
                typed == IF init.type # "int"
                         THEN error(init.a,
                                    "Cannot initialize int variable with non-integer expression",
                                    "", at)
                         ELSE init.a
            IN  declareSymbol(typed, s.n, [kind |-> "VARIABLE", type |-> "int"])
      [] s.k = "Assign" ->
            IF ScopesWith(a, s.n) = {}
            THEN error(a, "Undefined variable", s.n, at)
            ELSE LET kinded == IF findSymbol(a, s.n).kind \notin {"VARIABLE", "PARAMETER"}
                               THEN error(a, "Cannot assign (not a variable)", s.n, at)
                               ELSE a
                     value == Typed(s.e, at \o <<0>>, kinded)
                 IN  IF value.type # "int"
                     THEN error(value.a, "Type mismatch in assignment", s.n, at)
                     ELSE value.a
      [] s.k = "Return" ->
            LET value == Typed(s.e, at \o <<0>>, a)
                typed == IF value.type # "int"
                         THEN error(value.a, "Return type mismatch", "", at)
                         ELSE value.a
            IN  [typed EXCEPT !.hasReturn = TRUE])

RECURSIVE DeclareParameters(_, _, _, _)
DeclareParameters(params, i, at, a) ==
    IF i > Len(params) THEN a
    ELSE Bind(IF params[i] \in DOMAIN Back(a.symbolTables)
              THEN error(a, "Parameter already declared", params[i], at)
              ELSE declareSymbol(a, params[i], [kind |-> "PARAMETER", type |-> "int"]),
              LAMBDA declared : DeclareParameters(params, i + 1, at, declared))

\* analyzeVisitor::visit(FunctionDef) of the function at position i, which
\* returns int
analyzeFunctionDef(functions, i, a) ==
    LET funcDef == functions[i]
        named == IF \E j \in 1..(i - 1) : functions[j].name = funcDef.name
                 THEN error(a, "Duplicate function name", funcDef.name, <<i>>)
                 ELSE a
        main == IF funcDef.name = "main" /\ funcDef.params # <<>>
                THEN error(error(named, "main function cannot have parameters", "", <<i>>),
                           "Invalid main function declaration", "", <<i>>)
                ELSE named
        entered == [main EXCEPT !.symbolTables = Append(@, <<>>), !.hasReturn = FALSE]
        declared == DeclareParameters(funcDef.params, 1, <<i>>,
                        declareSymbol(entered, funcDef.name,
                                      [kind |-> "FUNCTION", type |-> "int"]))
        body == analyzeStmt(funcDef.body, <<i>>, declared)
        returned == IF ~body.hasReturn
                    THEN error(body, "has no return statement", funcDef.name, <<i>>)
                    ELSE body
    IN  [returned EXCEPT !.symbolTables = SubSeq(@, 1, Len(@) - 1), !.hasReturn = FALSE]

RECURSIVE analyzeFunctions(_, _, _)
analyzeFunctions(functions, i, a) ==
    IF i > Len(functions) THEN a
    ELSE Bind(analyzeFunctionDef(functions, i, a), LAMBDA visited :
             analyzeFunctions(functions, i + 1, visited))

\* analyzeVisitor::visit(CompUnit)
analyzeCompUnit(root) ==
    LET start == [symbolTables |-> <<<<>>>>, errorMessages |-> <<>>, hasReturn |-> FALSE]
        hasMain == \E i \in 1..Len(root) : root[i].name = "main"
    IN  analyzeFunctions(root, 1,
            IF ~hasMain THEN error(start, "Program must have a main function", "", <<>>)
            ELSE start)

\* main of the part_001 driver: analyzer.analyze(ast)
CheckWalk ==
    /\ walkStage = "parsed"
    /\ walkErrors' = analyzeCompUnit(walkFunc).errorMessages
    /\ walkStage' = "checked"
    /\ UNCHANGED <<symbol_table, walkFunc, walkOut>>
    /\ UNCHANGED <<semVars, optVars, progVars, asmVars, peepVars, parseVars, allocVars, avVars, unitVars>>

\* The statements a body starts with.
WalkPool ==
    {VarDecl("x", Num(1)),
     VarDecl("y", Var("x")),
     VarDecl("x", Var("u")),
     AssignStmt("x", Bin("ADD", Var("x"), Num(1))),
     AssignStmt("y", Var("x")),
     ExprStmt(Bin("MUL", Var("x"), Var("y"))),
     ExprStmt(Bin("DIV", Var("x"), Num(0))),
     Block(<<VarDecl("y", Num(2)), AssignStmt("x", Var("y"))>>),
     Block(<<VarDecl("x", Num(2)), ExprStmt(Var("x"))>>)}

MaxStmts == 2

WalkBodies ==
    {Block(ss \o <<ReturnStmt(e)>>) :
        ss \in UNION {[1..n -> WalkPool] : n \in 0..MaxStmts},
        e \in {Num(0), Var("x")}}

\* `int main() { ... }` alone, and `int f(int x, int y) { ... }` before
\* an `int main() { return 0; }`
WalkUnits ==
    {<<Function("main", "INT", <<>>, b)>> : b \in WalkBodies}
    \cup {<<Function("f", "INT", <<"x", "y">>, b),
            Function("main", "INT", <<>>, Block(<<ReturnStmt(Num(0))>>))>> : b \in WalkBodies}

\* main: semantic_analyzer.analyze(*ast)
AnalyzeWalk ==
    /\ walkStage = "parsed"
    /\ \E w \in {analyze(walkFunc)} :
           /\ symbol_table' = w.t
           /\ walkErrors' = w.errors
           /\ walkStage' = IF w.errors = <<>> THEN "analyzed" ELSE "rejected"
    /\ UNCHANGED <<walkFunc, walkOut>>
    /\ UNCHANGED <<semVars, optVars, progVars, asmVars, peepVars, parseVars, allocVars, avVars, unitVars>>

\* main: code_generator.generate(*ast), after a successful analysis
GenerateWalk ==
    /\ walkStage = "analyzed"
    /\ \E st \in {generate(walkFunc, symbol_table)} :
           /\ symbol_table' = st.symbol_table
           /\ walkOut' = st.out
    /\ walkStage' = "generated"
    /\ UNCHANGED <<walkFunc, walkErrors>>
    /\ UNCHANGED <<semVars, optVars, progVars, asmVars, peepVars, parseVars, allocVars, avVars, unitVars>>

WalkInit ==
    /\ SemIdle
    /\ OptIdle
    /\ ProgIdle
    /\ AsmIdle
    /\ PeepIdle
    /\ ParseIdle
    /\ AllocIdle
    /\ AvIdle
    /\ UnitIdle
    /\ walkFunc \in WalkUnits
    /\ walkErrors = <<>>
    /\ walkOut = <<>>
    /\ walkStage = "parsed"
    /\ symbol_table = SymbolTable

WalkNext == AnalyzeWalk \/ GenerateWalk \/ CheckWalk

SpecWalk == WalkInit /\ [][WalkNext]_vars

RECURSIVE ExprReads(_)
\* the variable reads of an expression
ExprReads(e) ==
    CASE e.k = "Var" -> 1
      [] e.k = "Bin" -> ExprReads(e.l) + ExprReads(e.r)
      [] e.k = "Un" -> ExprReads(e.e)
      [] OTHER -> 0

RECURSIVE ExprZeros(_)
\* the literals 0 of an expression
ExprZeros(e) ==
    CASE e.k = "Num" -> IF e.v = 0 THEN 1 ELSE 0
      [] e.k = "Bin" -> ExprZeros(e.l) + ExprZeros(e.r)
      [] e.k = "Un" -> ExprZeros(e.e)
      [] OTHER -> 0

RECURSIVE StmtReads(_)
RECURSIVE StmtWrites(_)
RECURSIVE StmtZeros(_)
RECURSIVE SumOver(_, _, _)
\* the sum of count(ss[i]), count being "reads", "writes" or "zeros"
SumOver(ss, i, count) ==
    IF i > Len(ss) THEN 0
    ELSE (CASE count = "reads" -> StmtReads(ss[i])
            [] count = "writes" -> StmtWrites(ss[i])
            [] count = "zeros" -> StmtZeros(ss[i]))
         + SumOver(ss, i + 1, count)

StmtReads(s) ==
    CASE s.k = "Block" -> SumOver(s.ss, 1, "reads")
      [] OTHER -> ExprReads(s.e)

\* the declarations and assignments of a statement
StmtWrites(s) ==
    CASE s.k = "Block" -> SumOver(s.ss, 1, "writes")
      [] s.k \in {"VarDecl", "Assign"} -> 1
      [] OTHER -> 0

StmtZeros(s) ==
    CASE s.k = "Block" -> SumOver(s.ss, 1, "zeros")
      [] OTHER -> ExprZeros(s.e)

UnitZeros(root) == SumOver([i \in 1..Len(root) |-> root[i].body], 1, "zeros")

UnitReads(root) == SumOver([i \in 1..Len(root) |-> root[i].body], 1, "reads")

UnitWrites(root) == SumOver([i \in 1..Len(root) |-> root[i].body], 1, "writes")

\* the lines that store a temporary to, or load one from, a slot off sp
SlotStores(lines) ==
    {i \in 1..Len(lines) : /\ lines[i].op = "sw" /\ lines[i].rs1 = "sp"
                           /\ lines[i].imm # 0 /\ isTempReg(lines[i].rs2)}

SlotLoads(lines) ==
    {i \in 1..Len(lines) : /\ lines[i].op = "lw" /\ lines[i].rs1 = "sp"
                           /\ lines[i].imm # 0 /\ isTempReg(lines[i].rd)}

ZeroLoads(lines) == {i \in 1..Len(lines) : lines[i].op = "li" /\ lines[i].imm = 0}

\* C27: once the code generator has run on the table of a successful
\* analysis, every declaration and assignment has emitted a store to a slot
\* and every variable read a load from a slot, none the `li reg, 0` of a
\* failed lookup.
C27_VariablesFound ==
    walkStage = "generated" =>
        /\ Cardinality(SlotStores(walkOut)) = UnitWrites(walkFunc)
        /\ Cardinality(SlotLoads(walkOut)) = UnitReads(walkFunc)
        /\ Cardinality(ZeroLoads(walkOut)) = UnitZeros(walkFunc)

\* What holds instead: the analyzer leaves no variable and no parameter in
\* the table, and the generator emits no store and no load for a variable.
NoVariableLeft ==
    walkStage \in {"analyzed", "rejected", "generated"} =>
        /\ Len(symbol_table.scopes) = 1
        /\ \A name \in DOMAIN symbol_table.scopes[1].symbols :
               symbol_table.scopes[1].symbols[name].symbol_type = "FUNCTION"

NoVariableAccess ==
    walkStage = "generated" =>
        /\ SlotStores(walkOut) = {}
        /\ SlotLoads(walkOut) = {}
        /\ Cardinality(ZeroLoads(walkOut)) = UnitZeros(walkFunc) + UnitReads(walkFunc)

(***************************************************************************)
(* The branch pointers of an If after Optimizer::visit(IfStmt).            *)
(***************************************************************************)
NullThen(s) == s.k = "If" /\ s.t = NoStmt

\* C28: Optimizer::visit(IfStmt) dereferences no branch pointer that
\* optimize_if_statement has emptied, and leaves no If with a null
\* then_stmt in the tree.
C28_IfBranchesIntact ==
    /\ progStage # "crashed"
    /\ Optimized => \A s \in Statements(progAst) : ~NullThen(s)

\* What holds of it: an If whose condition does not fold to a constant
\* keeps its then_stmt.
NonConstantIfIntact ==
    Optimized => \A s \in Statements(progAst) : NullThen(s) => s.c.k = "Num"

(***************************************************************************)
(* Uses of undefined variables.                                            *)
(***************************************************************************)
IsDeclared(scopes, n) == \E i \in 1..Len(scopes) : n \in scopes[i]

RECURSIVE UndeclaredReads(_, _)
\* the reads in expr of names that no scope of scopes declares
UndeclaredReads(expr, scopes) ==
    CASE expr.k = "Var" -> IF IsDeclared(scopes, expr.n) THEN 0 ELSE 1
      [] expr.k = "Bin" -> UndeclaredReads(expr.l, scopes) + UndeclaredReads(expr.r, scopes)
      [] expr.k = "Un" -> UndeclaredReads(expr.e, scopes)
      [] OTHER -> 0

RECURSIVE Undeclared(_, _)
RECURSIVE UndeclaredSeq(_, _, _)
UndeclaredSeq(ss, i, u) ==
    IF i > Len(ss) THEN u
    ELSE Bind(Undeclared(ss[i], u), LAMBDA counted : UndeclaredSeq(ss, i + 1, counted))

\* u = [scopes, reads, targets] after statement s: reads counts the reads of
\* undeclared names in expressions, targets the assignments to one
Undeclared(s, u) ==
    CASE s.k = "Block" ->
            LET inner == UndeclaredSeq(s.ss, 1, [u EXCEPT !.scopes = Append(@, {})])
            IN  [inner EXCEPT !.scopes = SubSeq(@, 1, Len(@) - 1)]
      [] s.k = "VarDecl" ->
            [u EXCEPT !.reads = @ + UndeclaredReads(s.e, u.scopes),
                      !.scopes[Len(u.scopes)] = @ \cup {s.n}]
      [] s.k = "Assign" ->
            [u EXCEPT !.reads = @ + UndeclaredReads(s.e, u.scopes),
                      !.targets = @ + (IF IsDeclared(u.scopes, s.n) THEN 0 ELSE 1)]
      [] OTHER -> [u EXCEPT !.reads = @ + UndeclaredReads(s.e, u.scopes)]

RECURSIVE UnitUndeclared(_, _, _)
UnitUndeclared(root, i, u) ==
    IF i > Len(root) THEN u
    ELSE Bind(Undeclared(root[i].body,
                         [u EXCEPT !.scopes =
                              <<{root[i].params[k] : k \in 1..Len(root[i].params)}>>]),
              LAMBDA counted : UnitUndeclared(root, i + 1, counted))

UndeclaredIn(root) == UnitUndeclared(root, 1, [scopes |-> <<>>, reads |-> 0, targets |-> 0])

RECURSIVE ExprDivisions(_)
\* the divisions by the literal 0 in an expression
ExprDivisions(e) ==
    CASE e.k = "Bin" ->
            ExprDivisions(e.l) + ExprDivisions(e.r)
            + (IF e.op \in {"DIV", "MOD"} /\ e.r = Num(0) THEN 1 ELSE 0)
      [] e.k = "Un" -> ExprDivisions(e.e)
      [] OTHER -> 0

RECURSIVE BodyDivisions(_, _)
BodyDivisions(ss, i) ==
    IF i > Len(ss) THEN 0
    ELSE (IF ss[i].k = "Block" THEN BodyDivisions(ss[i].ss, 1) ELSE ExprDivisions(ss[i].e))
         + BodyDivisions(ss, i + 1)

UnitDivisions(root) == BodyDivisions([i \in 1..Len(root) |-> root[i].body], 1)

\* the number of the errors reported whose type is in types
Reported(types) == Cardinality({i \in 1..Len(walkErrors) : walkErrors[i].type \in types})

UndefinedVariable == {"UNDEFINED_VARIABLE", "Undefined variable"}

TypeErrors ==
    {"TYPE_MISMATCH", "INVALID_RETURN_TYPE",
     "Binary operator requires int operands", "Binary operator requires integer operands",
     "Unary operator requires int operand", "Unary operator requires integer operand",
     "Cannot initialize int variable with non-integer expression",
     "Type mismatch in assignment", "Return type mismatch"}

DivisionByZero == {"DIVISION_BY_ZERO", "Division by zero"}

WalkAnalyzed == walkStage \in {"analyzed", "rejected", "checked"}

\* C29: when a unit reads undefined variables in expressions, the analysis
\* reports one undefined-variable error for each such read (and one for
\* each assignment to an undefined variable), no type error for what
\* encloses the read, and the errors of the rest of the unit (here, the
\* divisions by the literal 0).
C29_UndefinedVariableLocal ==
    (WalkAnalyzed /\ UndeclaredIn(walkFunc).reads > 0) =>
        /\ Reported(UndefinedVariable)
               = UndeclaredIn(walkFunc).reads + UndeclaredIn(walkFunc).targets
        /\ Reported(TypeErrors) = 0
        /\ Reported(DivisionByZero) = UnitDivisions(walkFunc)

\* What holds of it.  The analyzer of semantic.cpp reports no type error
\* for these units, and no undefined-variable error that is not due.
NoTypeErrorInToyc2 ==
    walkStage \in {"analyzed", "rejected"} =>
        /\ Reported(TypeErrors) = 0
        /\ Reported(UndefinedVariable)
               <= UndeclaredIn(walkFunc).reads + UndeclaredIn(walkFunc).targets

\* The analyzer of part_001 reports every read of an undefined variable that
\* is not the value of an assignment to an undefined variable, and every
\* division by the literal 0 outside such a value.
UndefinedReadsReported ==
    walkStage = "checked" =>
        /\ Reported(UndefinedVariable)
               <= UndeclaredIn(walkFunc).reads + UndeclaredIn(walkFunc).targets
        /\ UndeclaredIn(walkFunc).targets = 0 =>
               /\ Reported(UndefinedVariable) = UndeclaredIn(walkFunc).reads
               /\ Reported(DivisionByZero) = UnitDivisions(walkFunc)

=============================================================================
